---- MODULE Spec2Model ----
(***************************************************************************)
(* RocksDict: the handle lifecycle around one native RocksDB instance      *)
(* (db_reference.rs, rdict.rs, iter.rs) and the typed codec (encoder.rs).  *)
(***************************************************************************)
EXTENDS Integers, Sequences, FiniteSets, TLC

(***************************************************************************)
(* Bounds.                                                                 *)
(***************************************************************************)
\* Number of handle objects (Rdict, ColumnFamily, RdictIter, holder) that
\* are ever created for the one native resource.
MaxHandles == 3

Handles == 1..MaxHandles

VARIABLES
    kind,       \* kind[h]: which struct the handle is
    st,         \* st[h]: "free" (not created yet), "live", "dropped"
    db,         \* db[h]: the handle's DB reference is Some (one Arc strong count)
    cf,         \* cf[h]: the handle holds an Arc<ColumnFamily>
    it,         \* it[h]: the cursor's native iterator exists
    dbState,    \* "open" | "released" (rocksdb::DB dropped)
    cancels,    \* calls of cancel_all_background_work made by a teardown
    releases,   \* times the native DB was dropped
    run,        \* the handler that is executing (one at a time, under the GIL)
    last,       \* outcome of the last completed operation
    closedOnce, \* some close() call has completed on an open handle
    raw,        \* codec: the raw_mode the store was opened with
    a, b,       \* codec: two Python objects handed to the codec
    ek,         \* codec: ek[x] = result of encode_key on a (x = 1) and b (x = 2)
    ev,         \* codec: ev[x] = result of encode_value on a and b
    dk,         \* codec: result of decode_value on ek[1]
    dv,         \* codec: result of decode_value on ev[1] (or on stored)
    stored,     \* codec: bytes found in the store, whoever wrote them
    store,      \* cursor: the encoded keys of the column family the cursor reads
    iter,       \* cursor: the native iterator: [valid, key, err]
    ctx,        \* cursor: ctx[t] = the RdictIter method thread t is executing
    nctx,       \* cursor: number of threads that hold the cursor object
    aborted,    \* cursor: the process died in the native library
    der,        \* derived cursor: the RdictKeys/Values/Columns/Items/Entities object
    yielded,    \* derived cursor: what its __next__ calls have yielded so far
    dcall,      \* derived cursor: the last __next__ call
    kv,         \* store: kv[k] = what the column family holds under the encoded key k
    req,        \* store: the last read call and its result
    arc,        \* close: strong count of the Arc<RefCell<DB>> the closing threads share
    hold,       \* close: hold[t] = the holder of thread t has Some(reference)
    cpc,        \* close: cpc[t] = the call thread t is in and its position there
    tore,       \* close: the threads that got the DB out of the Arc
    batch,      \* write: the WriteBatchPy: [ops, raw_mode, consumed]
    wr,         \* write: the write() calls so far: their number, and the last one
    seen,       \* write: what a concurrent reader saw of the store, and when
    versions,   \* snapshot: the states the store has been in, oldest first
    snap,       \* snapshot: the Snapshot object: [state, seq, view]
    fam,        \* range: fam[k] = what the column family "a" holds under k
    dr,         \* range: the delete_range call under way, or the last one
    omode,      \* config: omode[h] = opt_py.raw_mode of the Rdict h
    rmode,      \* config: rmode[h] = read_opt_py.raw_mode of the Rdict h
    registry,   \* config: slice_transforms, the names that have a prefix extractor
    saved,      \* config: prefix_extractors of the config file, as last saved
    fams,       \* config: the column families the engine has, besides default
    cc          \* config: the last configuration call and its outcome

lifeVars == <<kind, st, db, cf, it, dbState, cancels, releases, run, last, closedOnce>>

codecVars == <<raw, a, b, ek, ev, dk, dv, stored>>

cursorVars == <<store, iter, ctx, nctx, aborted>>

derivedVars == <<der, yielded, dcall>>

storeVars == <<kv, req>>

closeVars == <<arc, hold, cpc, tore>>

writeVars == <<batch, wr, seen>>

snapVars == <<versions, snap>>

rangeVars == <<fam, dr>>

confVars == <<omode, rmode, registry, saved, fams, cc>>

apiVars == <<derivedVars, storeVars, closeVars, writeVars, snapVars, rangeVars, confVars>>

vars == <<kind, st, db, cf, it, dbState, cancels, releases, run, last, closedOnce,
          raw, a, b, ek, ev, dk, dv, stored,
          store, iter, ctx, nctx, aborted,
          der, yielded, dcall,
          kv, req,
          arc, hold, cpc, tore,
          batch, wr, seen, versions, snap,
          fam, dr, omode, rmode, registry, saved, fams, cc>>

Kinds == {"Rdict", "ColumnFamilyPy", "RdictIter", "Holder"}

Idle == [h |-> 0, op |-> "none", todo |-> <<>>, res |-> "none",
         touched |-> FALSE, wasOpen |-> FALSE, live |-> FALSE]

NoOp == [h |-> 0, op |-> "none", res |-> "none", touched |-> FALSE,
         wasOpen |-> FALSE, live |-> FALSE]

\* The error of every `else` branch of `if let Some(db) = &self.db`.
Closed == "DB already closed"

\* The error RdictIter::new raises when the holder it is given has no DB.
DbClosedError == "DB instance already closed"

\* Rdict methods whose whole body is `if let Some(db) = &self.db { .. } else
\* { Err("DB already closed") }`.
SimpleOps == {"get", "multi_get", "put", "contains", "delete", "flush",
              "flush_wal", "write", "delete_range", "compact_range",
              "drop_column_family", "property_value", "path"}

\* Cursor methods: each dereferences the native iterator.
IterOps == {"valid", "seek", "next", "key"}

----------------------------------------------------------------------------
(***************************************************************************)
(* Reference counting.                                                     *)
(***************************************************************************)

\* Arc strong count of the Arc<RefCell<DB>>.
StrongCount == Cardinality({g \in Handles : db[g]})

IntoInnerAlways(h) == db[h]

\* Arc::into_inner(arc): Some(db) only for the last strong reference.
IntoInner(h) == db[h] /\ \A g \in Handles \ {h} : ~db[g]

LastArcAlways(h) == db[h]

\* drop(Arc): the inner DB is dropped only with the last strong reference.
LastArc(h) == db[h] /\ \A g \in Handles \ {h} : ~db[g]

\* The lowest slot not used yet: where a newly constructed handle lives.
FreeSlots == {h \in Handles : st[h] = "free"}
NewSlot == CHOOSE h \in FreeSlots : \A g \in FreeSlots : h <= g

Done(h, op, res, touched, wasOpen, live) ==
    [h |-> h, op |-> op, res |-> res, touched |-> touched,
     wasOpen |-> wasOpen, live |-> live]

----------------------------------------------------------------------------
(***************************************************************************)
(* Construction.                                                           *)
(***************************************************************************)

\* Rdict::new opens the database into an Rdict without column family;
\* DbReferenceHolder::new wraps it into a holder.
LifeInit ==
    /\ \E k \in {"Rdict", "Holder"} :
          kind = [h \in Handles |-> IF h = 1 THEN k ELSE "Holder"]
    /\ st = [h \in Handles |-> IF h = 1 THEN "live" ELSE "free"]
    /\ db = [h \in Handles |-> h = 1]
    /\ cf = [h \in Handles |-> FALSE]
    /\ it = [h \in Handles |-> FALSE]
    /\ dbState = "open"
    /\ cancels = 0
    /\ releases = 0
    /\ run = Idle
    /\ last = NoOp
    /\ closedOnce = FALSE

CanStart(h, k) == run.h = 0 /\ st[h] = "live" /\ kind[h] = k

\* A handle constructed by the running method is placed in the next slot.
Construct(k, withCf, withIter, withDb) ==
    /\ FreeSlots # {}
    /\ kind' = [kind EXCEPT ![NewSlot] = k]
    /\ st' = [st EXCEPT ![NewSlot] = "live"]
    /\ db' = [db EXCEPT ![NewSlot] = withDb]
    /\ cf' = [cf EXCEPT ![NewSlot] = withCf]
    /\ it' = [it EXCEPT ![NewSlot] = withIter]

NoHandleChange == UNCHANGED <<kind, st, db, cf, it>>

NoResourceChange == UNCHANGED <<dbState, cancels, releases>>

----------------------------------------------------------------------------
(***************************************************************************)
(* Rdict methods (rdict.rs).                                               *)
(***************************************************************************)

\* What a method that reaches the engine can return: encode errors are
\* raised before the engine call, engine errors after it.
Outcomes(op) ==
    {"ok"}
    \cup (IF op \in {"get", "multi_get", "put", "contains", "delete", "write",
                     "delete_range", "compact_range"}
          THEN {"ArgError"} ELSE {})
    \cup (IF op = "path" THEN {} ELSE {"EngineError"})

\* __getitem__, __setitem__, __contains__, __delitem__, flush, flush_wal,
\* write, delete_range, compact_range, drop_column_family, property_value,
\* path.
RdictOp(h, op, out) ==
    /\ CanStart(h, "Rdict")
    /\ out \in Outcomes(op)
    /\ last' = IF db[h]
               THEN Done(h, op, out, out # "ArgError", TRUE, dbState = "open")
               ELSE Done(h, op, Closed, FALSE, FALSE, dbState = "open")
    /\ NoHandleChange /\ NoResourceChange
    /\ UNCHANGED <<run, closedOnce>>
    /\ UNCHANGED codecVars
    /\ UNCHANGED cursorVars
    /\ UNCHANGED apiVars

\* Rdict::get_column_family: a new Rdict sharing the DB, with the CF handle.
GetColumnFamily(h, exists) ==
    /\ CanStart(h, "Rdict")
    /\ IF ~db[h]
       THEN /\ last' = Done(h, "get_column_family", Closed, FALSE, FALSE, dbState = "open")
            /\ NoHandleChange
       ELSE IF ~exists
       THEN /\ last' = Done(h, "get_column_family", "ArgError", TRUE, TRUE, dbState = "open")
            /\ NoHandleChange
       ELSE /\ last' = Done(h, "get_column_family", "ok", TRUE, TRUE, dbState = "open")
            /\ Construct("Rdict", TRUE, FALSE, TRUE)
    /\ NoResourceChange
    /\ UNCHANGED <<run, closedOnce>>
    /\ UNCHANGED codecVars
    /\ UNCHANGED cursorVars
    /\ UNCHANGED apiVars

\* Rdict::create_column_family: the raw_mode check, then dump_config (which
\* reads self.path()), then create_cf and get_column_family.
CreateColumnFamily(h, rawModeMatches, out) ==
    /\ CanStart(h, "Rdict")
    /\ out \in {"ok", "EngineError"}
    /\ IF ~rawModeMatches
       THEN /\ last' = Done(h, "create_column_family", "ArgError", FALSE, db[h], dbState = "open")
            /\ NoHandleChange
       ELSE IF ~db[h]
       THEN /\ last' = Done(h, "create_column_family", Closed, FALSE, FALSE, dbState = "open")
            /\ NoHandleChange
       ELSE IF out # "ok"
       THEN /\ last' = Done(h, "create_column_family", out, TRUE, TRUE, dbState = "open")
            /\ NoHandleChange
       ELSE /\ last' = Done(h, "create_column_family", "ok", TRUE, TRUE, dbState = "open")
            /\ Construct("Rdict", TRUE, FALSE, TRUE)
    /\ NoResourceChange
    /\ UNCHANGED <<run, closedOnce>>
    /\ UNCHANGED codecVars
    /\ UNCHANGED cursorVars
    /\ UNCHANGED apiVars

\* Rdict::get_column_family_handle: a ColumnFamilyPy {cf, db: db.clone()}.
GetColumnFamilyHandle(h, exists) ==
    /\ CanStart(h, "Rdict")
    /\ IF ~db[h]
       THEN /\ last' = Done(h, "get_column_family_handle", Closed, FALSE, FALSE, dbState = "open")
            /\ NoHandleChange
       ELSE IF ~exists
       THEN /\ last' = Done(h, "get_column_family_handle", "ArgError", TRUE, TRUE, dbState = "open")
            /\ NoHandleChange
       ELSE /\ last' = Done(h, "get_column_family_handle", "ok", TRUE, TRUE, dbState = "open")
            /\ Construct("ColumnFamilyPy", TRUE, FALSE, TRUE)
    /\ NoResourceChange
    /\ UNCHANGED <<run, closedOnce>>
    /\ UNCHANGED codecVars
    /\ UNCHANGED cursorVars
    /\ UNCHANGED apiVars

----------------------------------------------------------------------------
(***************************************************************************)
(* Cursors (iter.rs).                                                      *)
(***************************************************************************)

RdictIterNewWithoutReference(h, readOptsOk, op) ==
    IF ~readOptsOk
    THEN /\ last' = Done(h, op, "ArgError", FALSE, db[h], dbState = "open")
         /\ NoHandleChange
    ELSE IF ~db[h]
    THEN /\ last' = Done(h, op, DbClosedError, FALSE, FALSE, dbState = "open")
         /\ NoHandleChange
    ELSE /\ last' = Done(h, op, "ok", TRUE, TRUE, dbState = "open")
         /\ Construct("RdictIter", FALSE, TRUE, FALSE)

\* RdictIter::new(db: &DbReferenceHolder, ..): read options are converted
\* first, then the holder is asked for the DB, then the native iterator is
\* created and the holder cloned into the cursor.
RdictIterNew(h, readOptsOk, op) ==
    IF ~readOptsOk
    THEN /\ last' = Done(h, op, "ArgError", FALSE, db[h], dbState = "open")
         /\ NoHandleChange
    ELSE IF ~db[h]
    THEN /\ last' = Done(h, op, DbClosedError, FALSE, FALSE, dbState = "open")
         /\ NoHandleChange
    ELSE /\ last' = Done(h, op, "ok", TRUE, TRUE, dbState = "open")
         /\ Construct("RdictIter", FALSE, TRUE, TRUE)

\* Rdict::iter and, through it, items / keys / values.
RdictIterFrom(h, readOptsOk, op) ==
    /\ CanStart(h, "Rdict")
    /\ op \in {"iter", "items", "keys", "values"}
    /\ IF db[h]
       THEN RdictIterNew(h, readOptsOk, op)
       ELSE /\ last' = Done(h, op, Closed, FALSE, FALSE, dbState = "open")
            /\ NoHandleChange
    /\ NoResourceChange
    /\ UNCHANGED <<run, closedOnce>>
    /\ UNCHANGED codecVars
    /\ UNCHANGED cursorVars
    /\ UNCHANGED apiVars

\* A cursor made directly from a holder.
HolderIter(h, readOptsOk) ==
    /\ CanStart(h, "Holder")
    /\ RdictIterNew(h, readOptsOk, "RdictIter::new")
    /\ NoResourceChange
    /\ UNCHANGED <<run, closedOnce>>
    /\ UNCHANGED codecVars
    /\ UNCHANGED cursorVars
    /\ UNCHANGED apiVars

\* valid, seek*, next, prev, key, value: each dereferences the native
\* iterator; none of them looks at the holder.
IterOp(h, op) ==
    /\ CanStart(h, "RdictIter")
    /\ op \in IterOps
    /\ last' = Done(h, op, "ok", TRUE, db[h], it[h] /\ dbState = "open")
    /\ NoHandleChange /\ NoResourceChange
    /\ UNCHANGED <<run, closedOnce>>
    /\ UNCHANGED codecVars
    /\ UNCHANGED cursorVars
    /\ UNCHANGED apiVars

----------------------------------------------------------------------------
(***************************************************************************)
(* DbReferenceHolder (db_reference.rs).                                    *)
(***************************************************************************)

\* DbReferenceHolder::get: self.inner.as_ref().
HolderGet(h) ==
    /\ CanStart(h, "Holder")
    /\ last' = Done(h, "Holder.get", IF db[h] THEN "Some" ELSE "None",
                    FALSE, db[h], dbState = "open")
    /\ NoHandleChange /\ NoResourceChange
    /\ UNCHANGED <<run, closedOnce>>
    /\ UNCHANGED codecVars
    /\ UNCHANGED cursorVars
    /\ UNCHANGED apiVars

HolderCloneReopens(h) ==
    /\ CanStart(h, "Holder")
    /\ Construct("Holder", FALSE, FALSE, TRUE)
    /\ last' = Done(h, "Holder.clone", "ok", FALSE, db[h], dbState = "open")
    /\ NoResourceChange
    /\ UNCHANGED <<run, closedOnce>>
    /\ UNCHANGED codecVars
    /\ UNCHANGED cursorVars
    /\ UNCHANGED apiVars

\* #[derive(Clone)]: Option<Arc<..>>::clone.
HolderClone(h) ==
    /\ CanStart(h, "Holder")
    /\ Construct("Holder", FALSE, FALSE, db[h])
    /\ last' = Done(h, "Holder.clone", "ok", FALSE, db[h], dbState = "open")
    /\ NoResourceChange
    /\ UNCHANGED <<run, closedOnce>>
    /\ UNCHANGED codecVars
    /\ UNCHANGED cursorVars
    /\ UNCHANGED apiVars

----------------------------------------------------------------------------
(***************************************************************************)
(* Teardown: close() and Drop.  run.todo holds the statements the running  *)
(* handler has still to execute, in the order of the source; one step      *)
(* executes one statement and no other handler runs in between.            *)
(***************************************************************************)

Begin(h, op, todo, res, touched) ==
    run' = [h |-> h, op |-> op, todo |-> todo, res |-> res, touched |-> touched,
            wasOpen |-> db[h], live |-> dbState = "open"]

\* The running handler goes on as r; when nothing is left it returns: its
\* outcome is recorded and a dropped handle is gone.
Advance(r) ==
    IF r.todo # <<>>
    THEN /\ run' = r
         /\ UNCHANGED <<last, st, closedOnce>>
    ELSE /\ run' = Idle
         /\ last' = Done(r.h, r.op, r.res, r.touched, r.wasOpen, r.live)
         /\ st' = [st EXCEPT ![r.h] = IF r.op = "drop" THEN "dropped" ELSE @]
         /\ closedOnce' = (closedOnce \/ (r.op = "close" /\ r.wasOpen))

\* A use of the native resource by the running handler.
Touch(r) == [r EXCEPT !.touched = TRUE,
                      !.live = ((r.touched => r.live) /\ dbState = "open")]

Rest(r) == [r EXCEPT !.todo = Tail(r.todo)]

RdictTeardownDbFirst == <<"db", "cf">>

\* Rdict::close and impl Drop for Rdict: drop(self.column_family.take())
\* and then drop(self.db.take()).
RdictTeardown == <<"cf", "db">>

ColumnFamilyPyFieldsDbFirst == <<"db", "cf">>

\* struct ColumnFamilyPy { cf, db }: fields are dropped in declaration order.
ColumnFamilyPyFields == <<"cf", "db">>

RdictIterTeardownHolderFirst == <<"holder", "iter">>

\* impl Drop for RdictIter (rocksdb_iter_destroy) runs first, then the
\* fields are dropped, the DbReferenceHolder among them.
RdictIterTeardown == <<"iter", "holder">>

\* Rdict::close: flush, then the takes; "DB already closed" on a closed handle.
RdictClose(h, flushResult) ==
    /\ CanStart(h, "Rdict")
    /\ flushResult \in {"ok", "EngineError"}
    /\ IF db[h]
       THEN /\ Begin(h, "close", RdictTeardown, flushResult, TRUE)
            /\ UNCHANGED last
       ELSE /\ last' = Done(h, "close", Closed, FALSE, FALSE, dbState = "open")
            /\ UNCHANGED run
    /\ NoHandleChange /\ NoResourceChange
    /\ UNCHANGED closedOnce
    /\ UNCHANGED codecVars
    /\ UNCHANGED cursorVars
    /\ UNCHANGED apiVars

RdictDropAlwaysFlushes(h) ==
    /\ CanStart(h, "Rdict")
    /\ Begin(h, "drop", RdictTeardown, "ok", TRUE)
    /\ NoHandleChange /\ NoResourceChange
    /\ UNCHANGED <<last, closedOnce>>
    /\ UNCHANGED codecVars
    /\ UNCHANGED cursorVars
    /\ UNCHANGED apiVars

\* impl Drop for Rdict: flush if the DB is still held, then the takes.
RdictDrop(h) ==
    /\ CanStart(h, "Rdict")
    /\ Begin(h, "drop", RdictTeardown, "ok", db[h])
    /\ NoHandleChange /\ NoResourceChange
    /\ UNCHANGED <<last, closedOnce>>
    /\ UNCHANGED codecVars
    /\ UNCHANGED cursorVars
    /\ UNCHANGED apiVars

\* Dropping a ColumnFamilyPy.
ColumnFamilyDrop(h) ==
    /\ CanStart(h, "ColumnFamilyPy")
    /\ Begin(h, "drop", ColumnFamilyPyFields, "ok", FALSE)
    /\ NoHandleChange /\ NoResourceChange
    /\ UNCHANGED <<last, closedOnce>>
    /\ UNCHANGED codecVars
    /\ UNCHANGED cursorVars
    /\ UNCHANGED apiVars

\* Dropping a cursor.
IterDrop(h) ==
    /\ CanStart(h, "RdictIter")
    /\ Begin(h, "drop", RdictIterTeardown, "ok", FALSE)
    /\ NoHandleChange /\ NoResourceChange
    /\ UNCHANGED <<last, closedOnce>>
    /\ UNCHANGED codecVars
    /\ UNCHANGED cursorVars
    /\ UNCHANGED apiVars

\* DbReferenceHolder::close, called by the user or by impl Drop.
HolderClose(h, op) ==
    /\ CanStart(h, "Holder")
    /\ op \in {"close", "drop"}
    /\ Begin(h, op, <<"holder">>, "ok", FALSE)
    /\ NoHandleChange /\ NoResourceChange
    /\ UNCHANGED <<last, closedOnce>>
    /\ UNCHANGED codecVars
    /\ UNCHANGED cursorVars
    /\ UNCHANGED apiVars

Stepping(what) == run.h # 0 /\ run.todo # <<>> /\ Head(run.todo) = what

\* drop(self.column_family.take()) / the cf field of ColumnFamilyPy.
StepCf ==
    /\ Stepping("cf")
    /\ cf' = [cf EXCEPT ![run.h] = FALSE]
    /\ Advance(Rest(run))
    /\ UNCHANGED <<kind, db, it>>
    /\ NoResourceChange
    /\ UNCHANGED codecVars
    /\ UNCHANGED cursorVars
    /\ UNCHANGED apiVars

\* drop(self.db.take()) / the db field of ColumnFamilyPy: the DB is dropped
\* with the last Arc.
StepDb ==
    /\ Stepping("db")
    /\ db' = [db EXCEPT ![run.h] = FALSE]
    /\ IF LastArc(run.h)
       THEN dbState' = "released" /\ releases' = releases + 1
       ELSE UNCHANGED <<dbState, releases>>
    /\ Advance(Rest(run))
    /\ UNCHANGED <<kind, cf, it, cancels>>
    /\ UNCHANGED codecVars
    /\ UNCHANGED cursorVars
    /\ UNCHANGED apiVars

\* librocksdb_sys::rocksdb_iter_destroy(inner).
StepIterDestroy ==
    /\ Stepping("iter")
    /\ it' = [it EXCEPT ![run.h] = FALSE]
    /\ Advance(Rest(Touch(run)))
    /\ UNCHANGED <<kind, db, cf>>
    /\ NoResourceChange
    /\ UNCHANGED codecVars
    /\ UNCHANGED cursorVars
    /\ UNCHANGED apiVars

StepHolderTakeKeepsInner ==
    /\ Stepping("holder")
    /\ Advance([run EXCEPT !.todo = IF IntoInner(run.h)
                                    THEN <<"cancel", "release">> \o Tail(run.todo)
                                    ELSE Tail(run.todo)])
    /\ UNCHANGED <<kind, db, cf, it>>
    /\ NoResourceChange
    /\ UNCHANGED codecVars
    /\ UNCHANGED cursorVars
    /\ UNCHANGED apiVars

\* self.inner.take().and_then(Arc::into_inner): the reference is given up;
\* the sole owner gets the DB and goes on to cancel and drop it.
StepHolderTake ==
    /\ Stepping("holder")
    /\ db' = [db EXCEPT ![run.h] = FALSE]
    /\ Advance([run EXCEPT !.todo = IF IntoInner(run.h)
                                    THEN <<"cancel", "release">> \o Tail(run.todo)
                                    ELSE Tail(run.todo)])
    /\ UNCHANGED <<kind, cf, it>>
    /\ NoResourceChange
    /\ UNCHANGED codecVars
    /\ UNCHANGED cursorVars
    /\ UNCHANGED apiVars

\* db.borrow_mut().cancel_all_background_work(true).
StepCancel ==
    /\ Stepping("cancel")
    /\ cancels' = cancels + 1
    /\ Advance(Rest(Touch(run)))
    /\ UNCHANGED <<kind, db, cf, it, dbState, releases>>
    /\ UNCHANGED codecVars
    /\ UNCHANGED cursorVars
    /\ UNCHANGED apiVars

\* The RefCell<DB> taken out of the Arc goes out of scope: the DB is dropped.
StepRelease ==
    /\ Stepping("release")
    /\ dbState' = "released"
    /\ releases' = releases + 1
    /\ Advance(Rest(run))
    /\ UNCHANGED <<kind, db, cf, it, cancels>>
    /\ UNCHANGED codecVars
    /\ UNCHANGED cursorVars
    /\ UNCHANGED apiVars

LifeNext ==
    \/ \E h \in Handles, op \in SimpleOps, out \in {"ok", "ArgError", "EngineError"} :
          RdictOp(h, op, out)
    \/ \E h \in Handles, e \in BOOLEAN : GetColumnFamily(h, e)
    \/ \E h \in Handles, m \in BOOLEAN, out \in {"ok", "EngineError"} :
          CreateColumnFamily(h, m, out)
    \/ \E h \in Handles, e \in BOOLEAN : GetColumnFamilyHandle(h, e)
    \/ \E h \in Handles, r \in BOOLEAN, op \in {"iter", "items", "keys", "values"} :
          RdictIterFrom(h, r, op)
    \/ \E h \in Handles, r \in BOOLEAN : HolderIter(h, r)
    \/ \E h \in Handles, op \in IterOps : IterOp(h, op)
    \/ \E h \in Handles : HolderGet(h)
    \/ \E h \in Handles : HolderClone(h)
    \/ \E h \in Handles, f \in {"ok", "EngineError"} : RdictClose(h, f)
    \/ \E h \in Handles : RdictDrop(h)
    \/ \E h \in Handles : ColumnFamilyDrop(h)
    \/ \E h \in Handles : IterDrop(h)
    \/ \E h \in Handles, op \in {"close", "drop"} : HolderClose(h, op)
    \/ StepCf
    \/ StepDb
    \/ StepIterDestroy
    \/ StepHolderTake
    \/ StepCancel
    \/ StepRelease

----------------------------------------------------------------------------
(***************************************************************************)
(* The codec (encoder.rs).  A Python object is a record: its type, and the *)
(* value in the field of that type (the other fields hold defaults).       *)
(*   bool  : b                       int   : n                             *)
(*   bytes : s, the bytes            str   : s, the code points            *)
(*   float : s = <<sign, exponent>> \o the 13 hex digits of the mantissa   *)
(*   other : s, the bytes the caller's dumps returns for the object        *)
(***************************************************************************)

\* Longest bytes / str object handed to the codec.
MaxLen == 2

PyBool(x)  == [ty |-> "bool",  b |-> x,     n |-> 0, s |-> <<>>]
PyInt(x)   == [ty |-> "int",   b |-> FALSE, n |-> x, s |-> <<>>]
PyBytes(x) == [ty |-> "bytes", b |-> FALSE, n |-> 0, s |-> x]
PyStr(x)   == [ty |-> "str",   b |-> FALSE, n |-> 0, s |-> x]
PyFloat(x) == [ty |-> "float", b |-> FALSE, n |-> 0, s |-> x]
PyOther(x) == [ty |-> "other", b |-> FALSE, n |-> 0, s |-> x]
PyNone     == [ty |-> "none",  b |-> FALSE, n |-> 0, s |-> <<>>]
\* An object of another type on which the serializer (dumps) raises.
PyUnpicklable == [ty |-> "other", b |-> TRUE, n |-> 0, s |-> <<>>]

SeqsUpTo(S, n) == UNION {[1..k -> S] : k \in 0..n}

ByteSamples == {0, 1, 255}

\* Code points at the borders of the 1-, 2-, 3- and 4-byte UTF-8 forms.
CodePointSamples == {97, 128, 2047, 2048, 65536}

\* Integers around the borders of the 1-, 2- and 3-byte two's complement.
IntSamples == {-32769, -32768, -257, -256, -129, -128, -127, -1, 0, 1,
               127, 128, 255, 256, 32767, 32768}

Zeros(k) == [i \in 1..k |-> 0]

\* 0.0, -0.0, 1.0, -1.0, 1.5, 2.0, 0.1, +inf, -inf, NaN.
FloatSamples ==
    { <<0, 0>> \o Zeros(13), <<1, 0>> \o Zeros(13),
      <<0, 1023>> \o Zeros(13), <<1, 1023>> \o Zeros(13),
      <<0, 1023, 8>> \o Zeros(12), <<0, 1024>> \o Zeros(13),
      <<0, 1019, 9, 9, 9, 9, 9, 9, 9, 9, 9, 9, 9, 9, 10>>,
      <<0, 2047>> \o Zeros(13), <<1, 2047>> \o Zeros(13),
      <<0, 2047, 8>> \o Zeros(12) }

\* Serializations of objects of other types (dumps may return anything).
OtherSamples == {<<>>, <<128, 4>>}

PyObjects ==
    {PyBool(x) : x \in BOOLEAN}
    \cup {PyInt(x) : x \in IntSamples}
    \cup {PyBytes(x) : x \in SeqsUpTo(ByteSamples, MaxLen)}
    \cup {PyStr(x) : x \in SeqsUpTo(CodePointSamples, MaxLen)}
    \cup {PyFloat(x) : x \in FloatSamples}
    \cup {PyOther(x) : x \in OtherSamples}
    \cup {PyUnpicklable}

\* <T as PyTryFrom>::try_from(obj) succeeds on instances of T and of its
\* subclasses: Python's bool is a subclass of int.
IsInstance(v, t) == v.ty = t \/ (t = "int" /\ v.ty = "bool")

\* value.extract::<BigInt>() of an int (or of a bool taken as an int).
ExtractInt(v) == IF v.ty = "bool" THEN (IF v.b THEN 1 ELSE 0) ELSE v.n

PyToValueTypesIntBeforeBool(v) ==
    IF IsInstance(v, "bytes") THEN "Bytes"
    ELSE IF IsInstance(v, "str") THEN "String"
    ELSE IF IsInstance(v, "int") THEN "Int"
    ELSE IF IsInstance(v, "bool") THEN "Bool"
    ELSE IF IsInstance(v, "float") THEN "Float"
    ELSE "Any"

\* py_to_value_types: the first type test that succeeds, bool first.
PyToValueTypes(v) ==
    IF IsInstance(v, "bool") THEN "Bool"
    ELSE IF IsInstance(v, "bytes") THEN "Bytes"
    ELSE IF IsInstance(v, "str") THEN "String"
    ELSE IF IsInstance(v, "int") THEN "Int"
    ELSE IF IsInstance(v, "float") THEN "Float"
    ELSE "Any"

EncodingByteTextIntSwapped(t) ==
    CASE t = "Bytes" -> 1 [] t = "String" -> 3 [] t = "Int" -> 2
      [] t = "Float" -> 4 [] t = "Bool" -> 5 [] t = "Any" -> 6

\* encoding_byte.
EncodingByte(t) ==
    CASE t = "Bytes" -> 1 [] t = "String" -> 2 [] t = "Int" -> 3
      [] t = "Float" -> 4 [] t = "Bool" -> 5 [] t = "Any" -> 6

ConcatTypeEncodingTagLast(encoding, payload) == payload \o <<encoding>>

\* concat_type_encoding: push the tag, then extend with the payload.
ConcatTypeEncoding(encoding, payload) == <<encoding>> \o payload

\* str::as_bytes of the Rust String: the UTF-8 form of each code point.
Utf8Char(c) ==
    IF c < 128 THEN <<c>>
    ELSE IF c < 2048 THEN <<192 + (c \div 64), 128 + (c % 64)>>
    ELSE IF c < 65536
    THEN <<224 + (c \div 4096), 128 + ((c \div 64) % 64), 128 + (c % 64)>>
    ELSE <<240 + (c \div 262144), 128 + ((c \div 4096) % 64),
           128 + ((c \div 64) % 64), 128 + (c % 64)>>

RECURSIVE Utf8Encode(_)
Utf8Encode(cps) ==
    IF cps = <<>> THEN <<>> ELSE Utf8Char(Head(cps)) \o Utf8Encode(Tail(cps))

\* BigUint::to_bytes_be: the magnitude, most significant byte first; zero is
\* one zero byte.
RECURSIVE MagnitudeBytes(_)
MagnitudeBytes(m) ==
    IF m < 256 THEN <<m>> ELSE MagnitudeBytes(m \div 256) \o <<m % 256>>

\* twos_complement_be: from the least significant byte, invert every byte
\* and add the carry.
RECURSIVE TwosComplement(_, _)
TwosComplement(bytes, carry) ==
    IF bytes = <<>> THEN <<>>
    ELSE LET k == Len(bytes)
             inv == 255 - bytes[k]
             d == IF carry THEN (inv + 1) % 256 ELSE inv
         IN TwosComplement(SubSeq(bytes, 1, k - 1), carry /\ d = 0) \o <<d>>

AllZero(bytes) == \A i \in 1..Len(bytes) : bytes[i] = 0

\* BigInt::to_signed_bytes_be: the shortest two's complement form.
ToSignedBytesBe(x) ==
    LET mag == MagnitudeBytes(IF x < 0 THEN -x ELSE x)
        ext == IF mag[1] > 127
                  /\ ~(mag[1] = 128 /\ AllZero(Tail(mag)) /\ x < 0)
               THEN <<0>> \o mag ELSE mag
    IN IF x < 0 THEN TwosComplement(ext, TRUE) ELSE ext

RECURSIVE UnsignedValue(_)
UnsignedValue(bytes) ==
    IF bytes = <<>> THEN 0
    ELSE UnsignedValue(SubSeq(bytes, 1, Len(bytes) - 1)) * 256 + bytes[Len(bytes)]

FromSignedBytesBeUnsigned(bytes) == UnsignedValue(bytes)

\* BigInt::from_signed_bytes_be: negative when the top bit is set.
FromSignedBytesBe(bytes) ==
    IF bytes = <<>> THEN 0
    ELSE IF bytes[1] > 127 THEN -UnsignedValue(TwosComplement(bytes, TRUE))
    ELSE UnsignedValue(bytes)

\* f64::to_be_bytes: sign bit, 11 exponent bits, 52 mantissa bits.
F64ToBeBytes(f) ==
    <<f[1] * 128 + (f[2] \div 16), (f[2] % 16) * 16 + f[3]>>
    \o [i \in 1..6 |-> f[2 + 2 * i] * 16 + f[3 + 2 * i]]

\* f64::from_be_bytes.
F64FromBeBytes(bytes) ==
    <<bytes[1] \div 128, (bytes[1] % 128) * 16 + (bytes[2] \div 16), bytes[2] % 16>>
    \o [i \in 1..12 |-> IF i % 2 = 1 THEN bytes[2 + (i + 1) \div 2] \div 16
                                      ELSE bytes[2 + i \div 2] % 16]

\* The payload written for a value of each variant.
Payload(t, v) ==
    CASE t = "Bytes"  -> v.s
      [] t = "String" -> Utf8Encode(v.s)
      [] t = "Int"    -> ToSignedBytesBe(ExtractInt(v))
      [] t = "Float"  -> F64ToBeBytes(v.s)
      [] t = "Bool"   -> IF v.b THEN <<1>> ELSE <<0>>
      [] t = "Any"    -> v.s

EncNone == [status |-> "none", bytes |-> <<>>]
EncOk(x) == [status |-> "ok", bytes |-> x]
EncErr == [status |-> "err", bytes |-> <<>>]
\* The error raised by dumps.call1(..)?, passed on by encode_value.
EncDumpsErr == [status |-> "dumps error", bytes |-> <<>>]

EncodeKeyOpaqueFallback(key, raw_mode) ==
    IF raw_mode
    THEN IF IsInstance(key, "bytes") THEN EncOk(key.s) ELSE EncErr
    ELSE LET t == PyToValueTypes(key)
         IN EncOk(ConcatTypeEncoding(EncodingByte(t), Payload(t, key)))

\* encode_key.
EncodeKey(key, raw_mode) ==
    IF raw_mode
    THEN IF IsInstance(key, "bytes") THEN EncOk(key.s) ELSE EncErr
    ELSE LET t == PyToValueTypes(key)
         IN IF t = "Any" THEN EncErr
            ELSE EncOk(ConcatTypeEncoding(EncodingByte(t), Payload(t, key)))

EncodeValueIgnoresRawMode(value, raw_mode) ==
    LET t == PyToValueTypes(value)
    IN IF t = "Any" /\ value.b THEN EncDumpsErr
       ELSE EncOk(ConcatTypeEncoding(EncodingByte(t), Payload(t, value)))

\* encode_value.
EncodeValue(value, raw_mode) ==
    IF raw_mode
    THEN IF IsInstance(value, "bytes") THEN EncOk(value.s) ELSE EncErr
    ELSE LET t == PyToValueTypes(value)
         IN IF t = "Any" /\ value.b THEN EncDumpsErr
            ELSE EncOk(ConcatTypeEncoding(EncodingByte(t), Payload(t, value)))

IsCont(x) == x >= 128 /\ x <= 191

Utf8DecodeLossy(bytes) ==
    IF \A i \in 1..Len(bytes) : bytes[i] < 128
    THEN <<TRUE, bytes>> ELSE <<TRUE, <<65533>>>>

\* String::from_utf8: <<TRUE, code points>> for well-formed UTF-8 (shortest
\* forms only, no surrogates, at most U+10FFFF), <<FALSE, <<>>>> otherwise.
RECURSIVE Utf8Decode(_)
Utf8Decode(bytes) ==
    IF bytes = <<>> THEN <<TRUE, <<>>>>
    ELSE LET b1 == bytes[1]
             n == IF b1 < 128 THEN 1
                  ELSE IF b1 >= 194 /\ b1 <= 223 THEN 2
                  ELSE IF b1 >= 224 /\ b1 <= 239 THEN 3
                  ELSE IF b1 >= 240 /\ b1 <= 244 THEN 4
                  ELSE 0
         IN IF n = 0 \/ Len(bytes) < n
               \/ \E i \in 2..n : ~IsCont(bytes[i])
            THEN <<FALSE, <<>>>>
            ELSE LET c == CASE n = 1 -> b1
                            [] n = 2 -> (b1 - 192) * 64 + (bytes[2] - 128)
                            [] n = 3 -> (b1 - 224) * 4096 + (bytes[2] - 128) * 64
                                        + (bytes[3] - 128)
                            [] n = 4 -> (b1 - 240) * 262144 + (bytes[2] - 128) * 4096
                                        + (bytes[3] - 128) * 64 + (bytes[4] - 128)
                     rest == Utf8Decode(SubSeq(bytes, n + 1, Len(bytes)))
                 IN IF (n = 3 /\ (c < 2048 \/ (c >= 55296 /\ c <= 57343)))
                       \/ (n = 4 /\ (c < 65536 \/ c > 1114111))
                       \/ ~rest[1]
                    THEN <<FALSE, <<>>>>
                    ELSE <<TRUE, <<c>> \o rest[2]>>

DecNone == [status |-> "none", val |-> PyNone]
DecOk(v) == [status |-> "ok", val |-> v]
DecErr(e) == [status |-> e, val |-> PyNone]

\* decode_value.  "panic" is the unwrap of a failed try_into (tag 4) and the
\* out-of-bounds index bytes[1] (tag 5).
DecodeValue(bytes, raw_mode) ==
    IF raw_mode THEN DecOk(PyBytes(bytes))
    ELSE IF bytes = <<>> THEN DecErr("Unknown value type")
    ELSE LET payload == Tail(bytes)
         IN CASE bytes[1] = 1 -> DecOk(PyBytes(payload))
              [] bytes[1] = 2 ->
                    LET u == Utf8Decode(payload)
                    IN IF u[1] THEN DecOk(PyStr(u[2]))
                       ELSE DecErr("utf-8 decoding error")
              [] bytes[1] = 3 -> DecOk(PyInt(FromSignedBytesBe(payload)))
              [] bytes[1] = 4 ->
                    IF Len(payload) = 8 THEN DecOk(PyFloat(F64FromBeBytes(payload)))
                    ELSE DecErr("panic")
              [] bytes[1] = 5 ->
                    IF Len(payload) >= 1 THEN DecOk(PyBool(payload[1] # 0))
                    ELSE DecErr("panic")
              [] bytes[1] = 6 -> DecOk(PyOther(payload))
              [] OTHER -> DecErr("Unknown value type")

\* No codec call has been made.
CodecIdle ==
    /\ ek = <<EncNone, EncNone>>
    /\ ev = <<EncNone, EncNone>>
    /\ dk = DecNone
    /\ dv = DecNone

\* Two objects and the mode of the store they are written to.
CodecInit ==
    /\ raw \in BOOLEAN
    /\ a \in PyObjects
    /\ b \in PyObjects
    /\ stored = <<>>
    /\ CodecIdle

\* The keys a and b are encoded (put, get, seek, ...).
EncodeKeys ==
    /\ ek = <<EncNone, EncNone>>
    /\ ek' = <<EncodeKey(a, raw), EncodeKey(b, raw)>>
    /\ UNCHANGED <<raw, a, b, ev, dk, dv, stored>>
    /\ UNCHANGED lifeVars
    /\ UNCHANGED cursorVars
    /\ UNCHANGED apiVars

\* The values a and b are encoded (put).
EncodeValues ==
    /\ ev = <<EncNone, EncNone>>
    /\ ev' = <<EncodeValue(a, raw), EncodeValue(b, raw)>>
    /\ UNCHANGED <<raw, a, b, ek, dk, dv, stored>>
    /\ UNCHANGED lifeVars
    /\ UNCHANGED cursorVars
    /\ UNCHANGED apiVars

\* A stored key is decoded (RdictIter::key).
DecodeKey ==
    /\ ek[1].status = "ok" /\ dk = DecNone
    /\ dk' = DecodeValue(ek[1].bytes, raw)
    /\ UNCHANGED <<raw, a, b, ek, ev, dv, stored>>
    /\ UNCHANGED lifeVars
    /\ UNCHANGED cursorVars
    /\ UNCHANGED apiVars

\* A stored value is decoded (get, RdictIter::value).
DecodeStoredValue ==
    /\ ev[1].status = "ok" /\ dv = DecNone
    /\ dv' = DecodeValue(ev[1].bytes, raw)
    /\ UNCHANGED <<raw, a, b, ek, ev, dk, stored>>
    /\ UNCHANGED lifeVars
    /\ UNCHANGED cursorVars
    /\ UNCHANGED apiVars

CodecNext ==
    \/ EncodeKeys
    \/ EncodeValues
    \/ DecodeKey
    \/ DecodeStoredValue

\* Byte strings that are not well-formed UTF-8: a stray continuation byte, a
\* byte that never occurs, an overlong form, a truncated form, a surrogate
\* and a code point above U+10FFFF.
InvalidUtf8Samples ==
    { <<128>>, <<255>>, <<192, 128>>, <<224, 128>>, <<237, 160, 128>>,
      <<244, 144, 128, 128>>, <<97, 255>> }

\* Payloads a store can hold after a write by another program or a
\* corruption: short byte strings, text, and 7, 8 and 9 bytes where a
\* float has 8.
PayloadSamples ==
    SeqsUpTo(ByteSamples, MaxLen)
    \cup InvalidUtf8Samples
    \cup { <<97>>, <<206, 169>>, <<240, 159, 152, 128>> }
    \cup { Zeros(7), F64ToBeBytes(<<0, 1023, 8>> \o Zeros(12)), Zeros(9) }

\* The first byte of what is found: the six tags and bytes that are none.
TagSamples == {0, 1, 2, 3, 4, 5, 6, 7, 255}

\* (An integer payload stays within 4 bytes: the integers of the model
\* are 32-bit, the BigInt of the code is not bounded.)
StoredSamples ==
    {<<>>} \cup UNION { { <<t>> \o p : p \in {q \in PayloadSamples :
                                                   t = 3 => Len(q) <= 4} }
                         : t \in TagSamples }

\* Some bytes are found under a key of a store opened in either mode.
DecodeInit ==
    /\ raw \in BOOLEAN
    /\ stored \in StoredSamples
    /\ a = PyNone /\ b = PyNone
    /\ CodecIdle

\* The bytes found are decoded as a value (get, RdictIter::value).
DecodeFound ==
    /\ dv = DecNone
    /\ dv' = DecodeValue(stored, raw)
    /\ UNCHANGED <<raw, a, b, ek, ev, dk, stored>>
    /\ UNCHANGED lifeVars
    /\ UNCHANGED cursorVars
    /\ UNCHANGED apiVars

\* The bytes found are decoded as a key (RdictIter::key).
DecodeFoundKey ==
    /\ dk = DecNone
    /\ dk' = DecodeValue(stored, raw)
    /\ UNCHANGED <<raw, a, b, ek, ev, dv, stored>>
    /\ UNCHANGED lifeVars
    /\ UNCHANGED cursorVars
    /\ UNCHANGED apiVars

DecodeNext ==
    \/ DecodeFound
    \/ DecodeFoundKey

\* Byte-wise order of the store: the first differing byte decides, and a
\* proper prefix comes first.
LexLess(x, y) ==
    \/ \E i \in 1..Len(x) :
          /\ i <= Len(y)
          /\ x[i] < y[i]
          /\ \A j \in 1..(i - 1) : x[j] = y[j]
    \/ /\ Len(x) < Len(y)
       /\ \A j \in 1..Len(x) : x[j] = y[j]

----------------------------------------------------------------------------
(***************************************************************************)
(* The cursor (iter.rs): RdictIter and the native iterator it wraps.       *)
(***************************************************************************)

\* Number of entries of the column family a cursor reads.
MaxKeys == 3

\* The threads that can hold the same RdictIter object.
Threads == {1, 2}

\* Keys written through Rdict::__setitem__: integers on both sides of a
\* byte-width border, text with a prefix relation, and byte strings.
KeySamples ==
    { PyInt(1), PyInt(2), PyInt(256), PyStr(<<97>>), PyStr(<<97, 97>>),
      PyBytes(<<1>>), PyBytes(<<1, 0>>) }

\* Objects handed to seek and seek_for_prev: stored keys, a key that is not
\* stored, and an object that is no key.
Targets == KeySamples \cup {PyInt(3), PyOther(<<>>)}

\* The column families that hold up to MaxKeys of the keys the mode accepts.
Stores(raw_mode) ==
    LET ok == {k \in KeySamples : EncodeKey(k, raw_mode).status = "ok"}
    IN { {EncodeKey(k, raw_mode).bytes : k \in S} :
            S \in {T \in SUBSET ok : Cardinality(T) <= MaxKeys} }

\* The value stored under the (encoded) key k: the bytes of k, written as a
\* value.
ValueOf(k, raw_mode) == EncodeValue(PyBytes(k), raw_mode).bytes

\* States of the native iterator.  key is the buffer it last pointed to: it
\* stays behind when the iterator becomes invalid.
Unpositioned == [valid |-> FALSE, key |-> <<>>, err |-> FALSE]
Positioned(k) == [valid |-> TRUE, key |-> k, err |-> FALSE]
Exhausted(i) == [valid |-> FALSE, key |-> i.key, err |-> FALSE]
Errored(i) == [valid |-> FALSE, key |-> i.key, err |-> TRUE]

\* First and last of a non-empty set of keys under the byte-wise comparator.
Least(S) == CHOOSE x \in S : \A y \in S : ~LexLess(y, x)
Greatest(S) == CHOOSE x \in S : \A y \in S : ~LexLess(x, y)

\* The iterator lands on the first / last of the candidate keys, or becomes
\* invalid without error (a seek discards the status) when there is none.
Land(S, i, first) ==
    IF S = {} THEN Exhausted(i)
    ELSE Positioned(IF first THEN Least(S) ELSE Greatest(S))

\* The positioning calls of the native library.
RocksdbIterSeekToFirst(i) == Land(store, i, TRUE)
RocksdbIterSeekToLast(i) == Land(store, i, FALSE)
RocksdbIterSeek(i, k) == Land({x \in store : ~LexLess(x, k)}, i, TRUE)
RocksdbIterSeekForPrev(i, k) == Land({x \in store : ~LexLess(k, x)}, i, FALSE)
RocksdbIterNext(i) == Land({x \in store : LexLess(i.key, x)}, i, TRUE)
RocksdbIterPrev(i) == Land({x \in store : LexLess(x, i.key)}, i, FALSE)

ReadOps == {"key", "value", "columns"}
MoveOps == {"seek_to_first", "seek_to_last", "seek", "seek_for_prev", "next", "prev"}
CursorOps == {"valid", "status"} \cup ReadOps \cup MoveOps

ReceiverAllShared(op) == "shared"

\* The receiver of each method: `&self` borrows the object shared, `&mut
\* self` exclusively.
Receiver(op) == IF op \in {"valid", "status"} \cup ReadOps THEN "shared" ELSE "excl"

CtxIdle ==
    [op |-> "none", pc |-> "idle", arg |-> PyNone, held |-> "none",
     before |-> Unpositioned, after |-> Unpositioned, fetch |-> "no",
     failed |-> FALSE, res |-> "none", val |-> PyNone]

\* No cursor has been handed out.
CursorIdle ==
    /\ store = {}
    /\ iter = Unpositioned
    /\ ctx = [t \in Threads |-> CtxIdle]
    /\ nctx = 0
    /\ aborted = FALSE

\* A fresh cursor over some column family, held by n threads.
CursorInit(n, stores) ==
    /\ store \in stores
    /\ iter = Unpositioned
    /\ ctx = [t \in Threads |-> CtxIdle]
    /\ nctx = n
    /\ aborted = FALSE

\* Another thread holds a borrow of the object that excludes this call.
Conflict(t, op) ==
    \E u \in Threads \ {t} :
        IF Receiver(op) = "excl" THEN ctx[u].held # "none" ELSE ctx[u].held = "excl"

\* A thread calls a method: the method's receiver is borrowed from the
\* object, and the call fails at once when the borrow is refused.
Enter(t, op, arg) ==
    /\ ~aborted /\ t <= nctx
    /\ ctx[t].pc = "idle"
    /\ op \in CursorOps
    /\ arg \in (IF op \in {"seek", "seek_for_prev"} THEN Targets ELSE {PyNone})
    /\ ctx' = [ctx EXCEPT ![t] =
                  IF Conflict(t, op)
                  THEN [CtxIdle EXCEPT !.op = op, !.arg = arg, !.pc = "done",
                                       !.res = "AlreadyBorrowed"]
                  ELSE [CtxIdle EXCEPT !.op = op, !.arg = arg, !.pc = "borrowed",
                                       !.held = Receiver(op), !.before = iter]]
    /\ UNCHANGED <<store, iter, nctx, aborted>>
    /\ UNCHANGED lifeVars
    /\ UNCHANGED codecVars
    /\ UNCHANGED apiVars

\* The method returns to its caller and the borrow ends.
Return(t) ==
    /\ ~aborted /\ ctx[t].pc = "done"
    /\ ctx' = [ctx EXCEPT ![t] = CtxIdle]
    /\ UNCHANGED <<store, iter, nctx, aborted>>
    /\ UNCHANGED lifeVars
    /\ UNCHANGED codecVars
    /\ UNCHANGED apiVars

In(t, op) == ~aborted /\ ctx[t].pc = "borrowed" /\ ctx[t].op = op

Finish(t, res, val) ==
    ctx' = [ctx EXCEPT ![t] = [@ EXCEPT !.pc = "done", !.res = res, !.val = val,
                                        !.after = iter']]

\* A positioning call under the lock; the engine may fail in it.
Move(t, fail, to) ==
    /\ iter' = IF fail THEN Errored(iter) ELSE to
    /\ ctx' = [ctx EXCEPT ![t] = [@ EXCEPT !.pc = "done", !.res = "ok",
                                           !.failed = fail, !.after = iter']]
    /\ UNCHANGED <<store, nctx, aborted>>
    /\ UNCHANGED lifeVars
    /\ UNCHANGED codecVars
    /\ UNCHANGED apiVars

\* RdictIter::valid.
Valid(t) ==
    /\ In(t, "valid")
    /\ UNCHANGED iter
    /\ Finish(t, IF iter.valid THEN "True" ELSE "False", PyNone)
    /\ UNCHANGED <<store, nctx, aborted>>
    /\ UNCHANGED lifeVars
    /\ UNCHANGED codecVars
    /\ UNCHANGED apiVars

StatusResets(t) ==
    /\ In(t, "status")
    /\ Move(t, FALSE, Unpositioned)

\* RdictIter::status.
Status(t) ==
    /\ In(t, "status")
    /\ UNCHANGED iter
    /\ Finish(t, IF iter.err THEN "EngineError" ELSE "ok", PyNone)
    /\ UNCHANGED <<store, nctx, aborted>>
    /\ UNCHANGED lifeVars
    /\ UNCHANGED codecVars
    /\ UNCHANGED apiVars

SeekToFirstCallsLast(t, fail) ==
    /\ In(t, "seek_to_first")
    /\ Move(t, fail, RocksdbIterSeekToLast(iter))

\* RdictIter::seek_to_first.
SeekToFirst(t, fail) ==
    /\ In(t, "seek_to_first")
    /\ Move(t, fail, RocksdbIterSeekToFirst(iter))

\* RdictIter::seek_to_last.
SeekToLast(t, fail) ==
    /\ In(t, "seek_to_last")
    /\ Move(t, fail, RocksdbIterSeekToLast(iter))

EncodeFailedResets(t) ==
    /\ iter' = Unpositioned
    /\ Finish(t, "EncodeError", PyNone)
    /\ UNCHANGED <<store, nctx, aborted>>
    /\ UNCHANGED lifeVars
    /\ UNCHANGED codecVars
    /\ UNCHANGED apiVars

\* The key could not be encoded: the `?` returns before the native call.
EncodeFailed(t) ==
    /\ UNCHANGED iter
    /\ Finish(t, "EncodeError", PyNone)
    /\ UNCHANGED <<store, nctx, aborted>>
    /\ UNCHANGED lifeVars
    /\ UNCHANGED codecVars
    /\ UNCHANGED apiVars

\* RdictIter::seek.
Seek(t, fail) ==
    /\ In(t, "seek")
    /\ LET key == EncodeKey(ctx[t].arg, raw)
       IN IF key.status # "ok" THEN EncodeFailed(t)
          ELSE Move(t, fail, RocksdbIterSeek(iter, key.bytes))

\* RdictIter::seek_for_prev.
SeekForPrev(t, fail) ==
    /\ In(t, "seek_for_prev")
    /\ LET key == EncodeKey(ctx[t].arg, raw)
       IN IF key.status # "ok" THEN EncodeFailed(t)
          ELSE Move(t, fail, RocksdbIterSeekForPrev(iter, key.bytes))

\* Next() and Prev() of the native iterator require a valid iterator; the
\* method does not check: on an invalid one the call leaves it invalid or
\* the process dies in the library.
Undefined(t, dies) ==
    IF dies
    THEN /\ aborted' = TRUE
         /\ UNCHANGED <<store, iter, ctx, nctx>>
         /\ UNCHANGED lifeVars
         /\ UNCHANGED codecVars
         /\ UNCHANGED apiVars
    ELSE Move(t, FALSE, iter)

\* RdictIter::next.
IterNext(t, fail, dies) ==
    /\ In(t, "next")
    /\ IF iter.valid THEN Move(t, fail, RocksdbIterNext(iter))
       ELSE Undefined(t, dies)

\* RdictIter::prev.
IterPrev(t, fail, dies) ==
    /\ In(t, "prev")
    /\ IF iter.valid THEN Move(t, fail, RocksdbIterPrev(iter))
       ELSE Undefined(t, dies)

ReadValidUnchecked(t) ==
    /\ ~aborted /\ ctx[t].pc = "borrowed" /\ ctx[t].op \in ReadOps
    /\ ctx' = [ctx EXCEPT ![t] = [@ EXCEPT !.pc = "checked", !.before = iter]]
    /\ UNCHANGED <<store, iter, nctx, aborted>>
    /\ UNCHANGED lifeVars
    /\ UNCHANGED codecVars
    /\ UNCHANGED apiVars

\* key, value, columns: `if self.valid()`, else None.
ReadValid(t) ==
    /\ ~aborted /\ ctx[t].pc = "borrowed" /\ ctx[t].op \in ReadOps
    /\ ctx' = [ctx EXCEPT ![t] =
                  IF iter.valid
                  THEN [@ EXCEPT !.pc = "checked", !.before = iter]
                  ELSE [@ EXCEPT !.pc = "done", !.res = "None", !.after = iter]]
    /\ UNCHANGED <<store, iter, nctx, aborted>>
    /\ UNCHANGED lifeVars
    /\ UNCHANGED codecVars
    /\ UNCHANGED apiVars

\* What decode_value makes of the part of the entry the method reads.  The
\* columns of a plain value are one column with the empty default name, and
\* the name is decoded before the value.
Projection(op, k) ==
    LET name == DecodeValue(<<>>, raw)
    IN CASE op = "key" -> DecodeValue(k, raw)
         [] op = "value" -> DecodeValue(ValueOf(k, raw), raw)
         [] op = "columns" ->
               IF name.status # "ok" THEN name
               ELSE DecodeValue(ValueOf(k, raw), raw)

\* key, value, columns: the entry is fetched from the native iterator (a
\* second acquisition of the lock) and decoded.
ReadFetch(t) ==
    /\ ~aborted /\ ctx[t].pc = "checked"
    /\ LET d == Projection(ctx[t].op, iter.key)
       IN ctx' = [ctx EXCEPT ![t] =
                     [@ EXCEPT !.pc = "done", !.after = iter,
                               !.fetch = IF iter.valid THEN "valid" ELSE "stale",
                               !.res = IF d.status = "ok" THEN "ok" ELSE "DecodeError",
                               !.val = d.val]]
    /\ UNCHANGED <<store, iter, nctx, aborted>>
    /\ UNCHANGED lifeVars
    /\ UNCHANGED codecVars
    /\ UNCHANGED apiVars

CursorNext ==
    \/ \E t \in Threads, op \in CursorOps, arg \in Targets \cup {PyNone} : Enter(t, op, arg)
    \/ \E t \in Threads : Return(t)
    \/ \E t \in Threads : Valid(t)
    \/ \E t \in Threads : Status(t)
    \/ \E t \in Threads, fail \in BOOLEAN : SeekToFirst(t, fail)
    \/ \E t \in Threads, fail \in BOOLEAN : SeekToLast(t, fail)
    \/ \E t \in Threads, fail \in BOOLEAN : Seek(t, fail)
    \/ \E t \in Threads, fail \in BOOLEAN : SeekForPrev(t, fail)
    \/ \E t \in Threads, fail \in BOOLEAN, dies \in BOOLEAN : IterNext(t, fail, dies)
    \/ \E t \in Threads, fail \in BOOLEAN, dies \in BOOLEAN : IterPrev(t, fail, dies)
    \/ \E t \in Threads : ReadValid(t)
    \/ \E t \in Threads : ReadFetch(t)

----------------------------------------------------------------------------
(***************************************************************************)
(* Derived cursors (iter.rs): RdictKeys, RdictValues, RdictColumns,        *)
(* RdictItems, RdictEntities, each owning one RdictIter.                   *)
(***************************************************************************)

DerKinds == {"keys", "values", "columns", "items", "entities"}

\* The RdictIter methods a __next__ of each kind reads, in order.
Fields(k) ==
    CASE k = "keys" -> <<"key">>
      [] k = "values" -> <<"value">>
      [] k = "columns" -> <<"columns">>
      [] k = "items" -> <<"key", "value">>
      [] k = "entities" -> <<"key", "columns">>

DerNone ==
    [kind |-> "none", backwards |-> FALSE, from |-> PyNone, built |-> "no",
     failed |-> FALSE]

NoEntry == [status |-> "none", k |-> PyNone, v |-> PyNone]

CallNone ==
    [res |-> "none", before |-> Unpositioned, after |-> Unpositioned,
     steps |-> <<>>, val |-> NoEntry]

\* No derived cursor has been asked for.
DerivedIdle ==
    /\ der = DerNone
    /\ yielded = <<>>
    /\ dcall = CallNone

\* `let $field = slf.inner.$field(py)?;` for each field: the first field
\* that does not decode ends the call with its error.
Project(k, key) ==
    LET fs == Fields(k)
        ds == [i \in 1..Len(fs) |-> Projection(fs[i], key)]
    IN IF \E i \in 1..Len(fs) : ds[i].status # "ok"
       THEN [status |-> "DecodeError", k |-> PyNone, v |-> PyNone]
       ELSE [status |-> "ok",
             k |-> IF fs[1] = "key" THEN ds[1].val ELSE PyNone,
             v |-> IF fs[Len(fs)] = "key" THEN PyNone ELSE ds[Len(fs)].val]

\* new: the inner cursor is placed by seek / seek_for_prev on from_key, or
\* by seek_to_first / seek_to_last without one (from = PyNone); `?` gives up
\* the construction when from_key does not encode.
DerivedNew(k, backwards, from, fail) ==
    /\ ~aborted /\ der.built = "no"
    /\ k \in DerKinds
    /\ LET key == EncodeKey(from, raw)
           to == IF from # PyNone
                 THEN IF backwards THEN RocksdbIterSeekForPrev(iter, key.bytes)
                      ELSE RocksdbIterSeek(iter, key.bytes)
                 ELSE IF backwards THEN RocksdbIterSeekToLast(iter)
                      ELSE RocksdbIterSeekToFirst(iter)
       IN IF from # PyNone /\ key.status # "ok"
          THEN /\ der' = [kind |-> k, backwards |-> backwards, from |-> from,
                          built |-> "error", failed |-> FALSE]
               /\ UNCHANGED iter
          ELSE /\ der' = [kind |-> k, backwards |-> backwards, from |-> from,
                          built |-> "ok", failed |-> fail]
               /\ iter' = IF fail THEN Errored(iter) ELSE to
    /\ UNCHANGED <<yielded, dcall>>
    /\ UNCHANGED <<store, ctx, nctx, aborted>>
    /\ UNCHANGED lifeVars
    /\ UNCHANGED codecVars
    /\ UNCHANGED <<storeVars, closeVars, writeVars, snapVars, rangeVars, confVars>>

OneStepForward(i, backwards) == RocksdbIterNext(i)

\* `if slf.backwards { slf.inner.prev() } else { slf.inner.next() }`.
OneStep(i, backwards) ==
    IF backwards THEN RocksdbIterPrev(i) ELSE RocksdbIterNext(i)

DunderNextSkipsBad(fail) ==
    /\ ~aborted /\ der.built = "ok"
    /\ LET e == Project(der.kind, iter.key)
           step == IF der.backwards THEN "prev" ELSE "next"
       IN IF ~iter.valid
          THEN /\ dcall' = [res |-> "Stop", before |-> iter, after |-> iter,
                            steps |-> <<>>, val |-> NoEntry]
               /\ UNCHANGED <<iter, der, yielded>>
          ELSE IF e.status # "ok"
          THEN /\ iter' = OneStep(iter, der.backwards)
               /\ dcall' = [res |-> "DecodeError", before |-> iter, after |-> iter',
                            steps |-> <<step>>, val |-> NoEntry]
               /\ UNCHANGED <<der, yielded>>
          ELSE /\ iter' = IF fail THEN Errored(iter) ELSE OneStep(iter, der.backwards)
               /\ dcall' = [res |-> "Some", before |-> iter, after |-> iter',
                            steps |-> <<step>>, val |-> e]
               /\ yielded' = Append(yielded, e)
               /\ der' = [der EXCEPT !.failed = @ \/ fail]
    /\ UNCHANGED <<store, ctx, nctx, aborted>>
    /\ UNCHANGED lifeVars
    /\ UNCHANGED codecVars
    /\ UNCHANGED <<storeVars, closeVars, writeVars, snapVars, rangeVars, confVars>>

\* __next__: on a valid cursor the fields are read and decoded, then the
\* cursor moves one step and the entry is returned; on an invalid cursor
\* the iteration is over.
DunderNext(fail) ==
    /\ ~aborted /\ der.built = "ok"
    /\ LET e == Project(der.kind, iter.key)
           step == IF der.backwards THEN "prev" ELSE "next"
       IN IF ~iter.valid
          THEN /\ dcall' = [res |-> "Stop", before |-> iter, after |-> iter,
                            steps |-> <<>>, val |-> NoEntry]
               /\ UNCHANGED <<iter, der, yielded>>
          ELSE IF e.status # "ok"
          THEN /\ dcall' = [res |-> "DecodeError", before |-> iter, after |-> iter,
                            steps |-> <<>>, val |-> NoEntry]
               /\ UNCHANGED <<iter, der, yielded>>
          ELSE /\ iter' = IF fail THEN Errored(iter) ELSE OneStep(iter, der.backwards)
               /\ dcall' = [res |-> "Some", before |-> iter, after |-> iter',
                            steps |-> <<step>>, val |-> e]
               /\ yielded' = Append(yielded, e)
               /\ der' = [der EXCEPT !.failed = @ \/ fail]
    /\ UNCHANGED <<store, ctx, nctx, aborted>>
    /\ UNCHANGED lifeVars
    /\ UNCHANGED codecVars
    /\ UNCHANGED <<storeVars, closeVars, writeVars, snapVars, rangeVars, confVars>>

DerivedNext ==
    \/ \E k \in DerKinds, backwards \in BOOLEAN, from \in Targets \cup {PyNone},
          fail \in BOOLEAN : DerivedNew(k, backwards, from, fail)
    \/ \E fail \in BOOLEAN : DunderNext(fail)

----------------------------------------------------------------------------
(***************************************************************************)
(* Reads of the store (rdict.rs): __getitem__, get_batch_inner,            *)
(* __contains__.                                                           *)
(***************************************************************************)

\* Length of the key list of a multi-get.
MaxBatch == 3

\* Keys that may be stored.
GetKeys == {PyInt(1), PyStr(<<97>>), PyBytes(<<1>>)}

\* Keys asked for: stored ones, one that is never stored, one that is no key.
AskKeys == GetKeys \cup {PyInt(9), PyOther(<<>>)}

Absent == [has |-> FALSE, val |-> <<>>]
Present(bytes) == [has |-> TRUE, val |-> bytes]

\* What a key can hold: nothing, a value written by encode_value, or bytes
\* some other writer left there (no tag of the format).
Cells(raw_mode) ==
    {Absent, Present(EncodeValue(PyBytes(<<7>>), raw_mode).bytes), Present(<<255>>)}

StoreKeys(raw_mode) ==
    {EncodeKey(k, raw_mode).bytes : k \in {x \in GetKeys : EncodeKey(x, raw_mode).status = "ok"}}

\* The engine's answer for one key.
Lookup(m, k) == IF k \in DOMAIN m THEN m[k] ELSE Absent

ReqNone ==
    [op |-> "none", keys |-> <<>>, status |-> "none", list |-> <<>>,
     reads |-> 0, engine |-> FALSE, before |-> <<>>]

\* No store is looked at.
StoreIdle ==
    /\ kv = <<>>
    /\ req = ReqNone

StoreInit(raw_mode) ==
    /\ kv \in [StoreKeys(raw_mode) -> Cells(raw_mode)]
    /\ req = ReqNone

\* The call returns to its caller (one caller at a time holds the Rdict).
Answer(op, keys, status, list, reads, engine) ==
    /\ req = ReqNone
    /\ req' = [op |-> op, keys |-> keys, status |-> status, list |-> list,
               reads |-> reads, engine |-> engine, before |-> kv]
    /\ UNCHANGED kv
    /\ UNCHANGED lifeVars
    /\ UNCHANGED codecVars
    /\ UNCHANGED cursorVars
    /\ UNCHANGED <<derivedVars, closeVars, writeVars, snapVars, rangeVars, confVars>>

GetItemNoneWhenAbsent(key, fail) ==
    LET k == EncodeKey(key, raw)
        d == DecodeValue(Lookup(kv, k.bytes).val, raw)
    IN IF k.status # "ok" THEN Answer("get", <<key>>, "EncodeError", <<>>, 0, FALSE)
       ELSE IF fail THEN Answer("get", <<key>>, "EngineError", <<>>, 1, TRUE)
       ELSE IF ~Lookup(kv, k.bytes).has THEN Answer("get", <<key>>, "ok", <<PyNone>>, 1, FALSE)
       ELSE IF d.status # "ok" THEN Answer("get", <<key>>, "DecodeError", <<>>, 1, FALSE)
       ELSE Answer("get", <<key>>, "ok", <<d.val>>, 1, FALSE)

\* Rdict::__getitem__ with a key that is not a list.
GetItem(key, fail) ==
    LET k == EncodeKey(key, raw)
        d == DecodeValue(Lookup(kv, k.bytes).val, raw)
    IN IF k.status # "ok" THEN Answer("get", <<key>>, "EncodeError", <<>>, 0, FALSE)
       ELSE IF fail THEN Answer("get", <<key>>, "EngineError", <<>>, 1, TRUE)
       ELSE IF ~Lookup(kv, k.bytes).has THEN Answer("get", <<key>>, "key not found", <<>>, 1, FALSE)
       ELSE IF d.status # "ok" THEN Answer("get", <<key>>, "DecodeError", <<>>, 1, FALSE)
       ELSE Answer("get", <<key>>, "ok", <<d.val>>, 1, FALSE)

\* One slot of the vector multi_get_opt returns, as the loop over it sees
\* it: the engine's error, None, or the decoded value.
Slot(key, failed) ==
    LET cell == Lookup(kv, EncodeKey(key, raw).bytes)
        d == DecodeValue(cell.val, raw)
    IN IF failed THEN [status |-> "EngineError", val |-> PyNone]
       ELSE IF ~cell.has THEN [status |-> "ok", val |-> PyNone]
       ELSE IF d.status # "ok" THEN [status |-> "DecodeError", val |-> PyNone]
       ELSE [status |-> "ok", val |-> d.val]

RECURSIVE SelectSeq2(_, _)
SelectSeq2(q, keep) ==
    IF q = <<>> THEN <<>>
    ELSE (IF keep[1] THEN <<Head(q)>> ELSE <<>>)
         \o SelectSeq2(Tail(q), [i \in 1..(Len(q) - 1) |-> keep[i + 1]])

GetBatchInnerSkipsAbsent(keys, failAt) ==
    LET n == Len(keys)
        slots == [i \in 1..n |-> Slot(keys[i], i = failAt)]
        bad == {i \in 1..n : slots[i].status # "ok"}
        first == CHOOSE i \in bad : \A j \in bad : i <= j
    IN IF \E i \in 1..n : EncodeKey(keys[i], raw).status # "ok"
       THEN [status |-> "EncodeError", list |-> <<>>, reads |-> 0]
       ELSE IF bad # {}
       THEN [status |-> slots[first].status, list |-> <<>>, reads |-> 1]
       ELSE [status |-> "ok", reads |-> 1,
             list |-> SelectSeq2([i \in 1..n |-> slots[i].val],
                                 [i \in 1..n |-> slots[i].val # PyNone])]

GetBatchInnerPerSlot(keys, failAt) ==
    LET n == Len(keys)
        slots == [i \in 1..n |-> Slot(keys[i], i = failAt)]
    IN IF \E i \in 1..n : EncodeKey(keys[i], raw).status # "ok"
       THEN [status |-> "EncodeError", list |-> <<>>, reads |-> 0]
       ELSE [status |-> "ok", list |-> [i \in 1..n |-> slots[i].val], reads |-> 1]

\* get_batch_inner: every key is encoded (`?`), one multi_get is issued,
\* and the loop over its answers returns at the first engine or decode
\* error; otherwise the list has one element per key.
GetBatchInner(keys, failAt) ==
    LET n == Len(keys)
        slots == [i \in 1..n |-> Slot(keys[i], i = failAt)]
        bad == {i \in 1..n : slots[i].status # "ok"}
        first == CHOOSE i \in bad : \A j \in bad : i <= j
    IN IF \E i \in 1..n : EncodeKey(keys[i], raw).status # "ok"
       THEN [status |-> "EncodeError", list |-> <<>>, reads |-> 0]
       ELSE IF bad # {}
       THEN [status |-> slots[first].status, list |-> <<>>, reads |-> 1]
       ELSE [status |-> "ok", list |-> [i \in 1..n |-> slots[i].val], reads |-> 1]

\* Rdict::__getitem__ with a list of keys.
GetBatch(keys, failAt) ==
    /\ Len(keys) <= MaxBatch
    /\ LET r == GetBatchInner(keys, failAt)
       IN Answer("multi", keys, r.status, r.list, r.reads, failAt \in 1..Len(keys))

\* Rdict::__contains__: key_may_exist (which may say yes for an absent key,
\* never no for a stored one), then the read that settles it.
Contains(key, may_exist, fail) ==
    LET k == EncodeKey(key, raw)
        cell == Lookup(kv, k.bytes)
    IN IF k.status # "ok" THEN Answer("contains", <<key>>, "EncodeError", <<>>, 0, FALSE)
       ELSE IF ~(cell.has \/ may_exist) THEN Answer("contains", <<key>>, "False", <<>>, 0, FALSE)
       ELSE IF fail THEN Answer("contains", <<key>>, "EngineError", <<>>, 1, TRUE)
       ELSE Answer("contains", <<key>>, IF cell.has THEN "True" ELSE "False", <<>>, 1, FALSE)

\* The caller is done with the result.
Forget ==
    /\ req # ReqNone
    /\ req' = ReqNone
    /\ UNCHANGED kv
    /\ UNCHANGED lifeVars
    /\ UNCHANGED codecVars
    /\ UNCHANGED cursorVars
    /\ UNCHANGED <<derivedVars, closeVars, writeVars, snapVars, rangeVars, confVars>>

KeyLists == UNION {[1..n -> AskKeys] : n \in 0..MaxBatch}

StoreNext ==
    \/ \E key \in AskKeys, fail \in BOOLEAN : GetItem(key, fail)
    \/ \E keys \in KeyLists, failAt \in 0..MaxBatch : GetBatch(keys, failAt)
    \/ \E key \in AskKeys, may_exist \in BOOLEAN, fail \in BOOLEAN :
          Contains(key, may_exist, fail)
    \/ Forget

----------------------------------------------------------------------------
(***************************************************************************)
(* DbReferenceHolder::close from several threads (db_reference.rs).        *)
(***************************************************************************)

\* The threads that own a clone of the holder.
Closers == {1, 2, 3}

CallNoneYet == [op |-> "none", pc |-> "idle"]

\* No holder is shared between threads.
CloseIdle ==
    /\ arc = 0
    /\ hold = [t \in Closers |-> FALSE]
    /\ cpc = [t \in Closers |-> CallNoneYet]
    /\ tore = {}

\* The first n threads each own a clone of the holder of an open DB.
CloseInit(n) ==
    /\ arc = n
    /\ hold = [t \in Closers |-> t <= n]
    /\ cpc = [t \in Closers |-> IF t <= n THEN CallNoneYet
                                ELSE [op |-> "drop", pc |-> "gone"]]
    /\ tore = {}

ArcIntoInnerAlways(count) == [count |-> count - 1, some |-> TRUE]

\* Arc::into_inner: one atomic decrement of the strong count; only the
\* caller that brings it to zero gets the inner value.
ArcIntoInner(count) == [count |-> count - 1, some |-> count = 1]

NoLifeChangeButResource == UNCHANGED <<kind, st, db, cf, it, run, last, closedOnce>>

\* close() is called, by the user or by impl Drop: self.inner.take().
HolderTake(t, op) ==
    /\ cpc[t].pc = "idle" /\ cpc[t].op # "drop"
    /\ op \in {"close", "drop"}
    /\ hold' = [hold EXCEPT ![t] = FALSE]
    /\ cpc' = [cpc EXCEPT ![t] =
                  IF hold[t] THEN [op |-> op, pc |-> "taken"]
                  ELSE [op |-> op, pc |-> IF op = "drop" THEN "gone" ELSE "idle"]]
    /\ UNCHANGED <<arc, tore>>
    /\ UNCHANGED lifeVars
    /\ UNCHANGED codecVars
    /\ UNCHANGED cursorVars
    /\ UNCHANGED <<derivedVars, storeVars, writeVars, snapVars, rangeVars, confVars>>

\* .and_then(Arc::into_inner).
HolderIntoInner(t) ==
    /\ cpc[t].pc = "taken"
    /\ arc' = ArcIntoInner(arc).count
    /\ IF ArcIntoInner(arc).some
       THEN /\ cpc' = [cpc EXCEPT ![t].pc = "got"]
            /\ tore' = tore \cup {t}
       ELSE /\ cpc' = [cpc EXCEPT ![t].pc = IF cpc[t].op = "drop" THEN "gone" ELSE "idle"]
            /\ UNCHANGED tore
    /\ UNCHANGED hold
    /\ UNCHANGED lifeVars
    /\ UNCHANGED codecVars
    /\ UNCHANGED cursorVars
    /\ UNCHANGED <<derivedVars, storeVars, writeVars, snapVars, rangeVars, confVars>>

\* db.borrow_mut().cancel_all_background_work(true).
HolderCancel(t) ==
    /\ cpc[t].pc = "got"
    /\ cancels' = cancels + 1
    /\ cpc' = [cpc EXCEPT ![t].pc = "cancelled"]
    /\ UNCHANGED <<arc, hold, tore>>
    /\ UNCHANGED <<dbState, releases>>
    /\ NoLifeChangeButResource
    /\ UNCHANGED codecVars
    /\ UNCHANGED cursorVars
    /\ UNCHANGED <<derivedVars, storeVars, writeVars, snapVars, rangeVars, confVars>>

\* End of the `if let Some(db)` block: the RefCell<DB> is dropped.
HolderRelease(t) ==
    /\ cpc[t].pc = "cancelled"
    /\ dbState' = "released"
    /\ releases' = releases + 1
    /\ cpc' = [cpc EXCEPT ![t].pc = IF cpc[t].op = "drop" THEN "gone" ELSE "idle"]
    /\ UNCHANGED <<arc, hold, tore>>
    /\ UNCHANGED cancels
    /\ NoLifeChangeButResource
    /\ UNCHANGED codecVars
    /\ UNCHANGED cursorVars
    /\ UNCHANGED <<derivedVars, storeVars, writeVars, snapVars, rangeVars, confVars>>

CloseNext ==
    \/ \E t \in Closers, op \in {"close", "drop"} : HolderTake(t, op)
    \/ \E t \in Closers : HolderIntoInner(t)
    \/ \E t \in Closers : HolderCancel(t)
    \/ \E t \in Closers : HolderRelease(t)

----------------------------------------------------------------------------
(***************************************************************************)
(* Write batches: Rdict::write (rdict.rs) applying a WriteBatchPy.         *)
(***************************************************************************)

\* Number of operations a batch collects.
MaxOps == 3

\* Number of calls of Rdict::write.
MaxCalls == 2

\* The two keys and two values the batches are about, as encoded in a mode.
WKeys(raw_mode) ==
    {EncodeKey(PyBytes(<<1>>), raw_mode).bytes, EncodeKey(PyBytes(<<2>>), raw_mode).bytes}
WVals(raw_mode) ==
    {EncodeValue(PyBytes(<<7>>), raw_mode).bytes, EncodeValue(PyBytes(<<8>>), raw_mode).bytes}

BatchOp(op, k, v) == [op |-> op, k |-> k, v |-> v]

\* The operations the batches are made of: two values put under one key, and
\* either key deleted.
WOps(raw_mode) ==
    LET k1 == EncodeKey(PyBytes(<<1>>), raw_mode).bytes
    IN {BatchOp("put", k1, v) : v \in WVals(raw_mode)}
         \cup {BatchOp("delete", k, <<>>) : k \in WKeys(raw_mode)}

\* One operation of a batch applied to the contents m.
Apply(m, o) ==
    IF o.k \notin DOMAIN m THEN m
    ELSE [m EXCEPT ![o.k] = IF o.op = "put" THEN Present(o.v) ELSE Absent]

RECURSIVE ApplyAll(_, _)
\* The operations of a batch take effect in the order they were added.
ApplyAll(m, ops) ==
    IF ops = <<>> THEN m ELSE ApplyAll(Apply(m, Head(ops)), Tail(ops))

WrNone == [n |-> 0, status |-> "none", pre |-> <<>>, ops |-> <<>>]
SeenNone == [at |-> 0, cells |-> <<>>]

\* No batch exists.
WriteIdle ==
    /\ batch = [ops |-> <<>>, raw_mode |-> FALSE, consumed |-> FALSE]
    /\ wr = WrNone
    /\ seen = SeenNone

\* WriteBatchPy(raw_mode): an empty batch.
WriteInit ==
    /\ batch \in [ops : {<<>>}, raw_mode : BOOLEAN, consumed : {FALSE}]
    /\ wr = WrNone
    /\ seen = SeenNone

NoOtherChange ==
    /\ UNCHANGED req
    /\ UNCHANGED codecVars
    /\ UNCHANGED cursorVars
    /\ UNCHANGED <<derivedVars, closeVars, snapVars, rangeVars, confVars>>

NoWriteChange ==
    /\ UNCHANGED lifeVars
    /\ NoOtherChange

\* WriteBatchPy::put and WriteBatchPy::delete: the operation is added to
\* the batch; the store is not touched.
BatchAdd(op, k, v) ==
    /\ ~batch.consumed /\ Len(batch.ops) < MaxOps
    /\ BatchOp(op, k, v) \in WOps(batch.raw_mode)
    /\ batch' = [batch EXCEPT !.ops = Append(@, BatchOp(op, k, v))]
    /\ UNCHANGED <<kv, wr, seen>>
    /\ NoWriteChange

WriteOneByOne(h, fail) ==
    /\ CanStart(h, "Rdict")
    /\ wr.n < MaxCalls
    /\ IF ~db[h]
       THEN /\ wr' = [n |-> wr.n + 1, status |-> Closed, pre |-> kv, ops |-> batch.ops]
            /\ UNCHANGED <<kv, batch>>
       ELSE IF raw # batch.raw_mode
       THEN /\ wr' = [n |-> wr.n + 1, status |-> "ModeError", pre |-> kv, ops |-> batch.ops]
            /\ UNCHANGED <<kv, batch>>
       ELSE IF batch.consumed
       THEN /\ wr' = [n |-> wr.n + 1, status |-> "Consumed", pre |-> kv, ops |-> <<>>]
            /\ UNCHANGED <<kv, batch>>
       ELSE /\ batch' = [batch EXCEPT !.consumed = TRUE]
            /\ wr' = [n |-> wr.n + 1, status |-> IF fail THEN "EngineError" ELSE "ok",
                      pre |-> kv, ops |-> batch.ops]
            /\ kv' = IF batch.ops = <<>> THEN kv
                     ELSE IF fail THEN Apply(kv, Head(batch.ops))
                     ELSE ApplyAll(kv, batch.ops)
    /\ UNCHANGED seen
    /\ NoWriteChange

\* Rdict::write: a batch of the other mode is refused; otherwise the batch
\* is consumed and handed to the engine, which applies all of it in one
\* step or, failing, none of it.
Write(h, fail) ==
    /\ CanStart(h, "Rdict")
    /\ wr.n < MaxCalls
    /\ IF ~db[h]
       THEN /\ wr' = [n |-> wr.n + 1, status |-> Closed, pre |-> kv, ops |-> batch.ops]
            /\ UNCHANGED <<kv, batch>>
       ELSE IF raw # batch.raw_mode
       THEN /\ wr' = [n |-> wr.n + 1, status |-> "ModeError", pre |-> kv, ops |-> batch.ops]
            /\ UNCHANGED <<kv, batch>>
       ELSE IF batch.consumed
       THEN /\ wr' = [n |-> wr.n + 1, status |-> "Consumed", pre |-> kv, ops |-> <<>>]
            /\ UNCHANGED <<kv, batch>>
       ELSE /\ batch' = [batch EXCEPT !.consumed = TRUE]
            /\ wr' = [n |-> wr.n + 1, status |-> IF fail THEN "EngineError" ELSE "ok",
                      pre |-> kv, ops |-> batch.ops]
            /\ kv' = IF fail THEN kv ELSE ApplyAll(kv, batch.ops)
    /\ UNCHANGED seen
    /\ NoWriteChange

\* A reader in another thread reads the store (get_pinned_opt with default
\* read options), before, between or after the calls of the writer.
ReaderGet ==
    /\ seen' = [at |-> wr.n, cells |-> kv]
    /\ UNCHANGED <<kv, batch, wr>>
    /\ NoWriteChange

WriteNext ==
    \/ \E op \in {"put", "delete"}, k \in WKeys(TRUE) \cup WKeys(FALSE),
          v \in WVals(TRUE) \cup WVals(FALSE) \cup {<<>>} : BatchAdd(op, k, v)
    \/ \E h \in Handles, fail \in BOOLEAN : Write(h, fail)
    \/ ReaderGet

----------------------------------------------------------------------------
(***************************************************************************)
(* Snapshots: Rdict::snapshot (rdict.rs) and the Snapshot it returns.      *)
(***************************************************************************)

\* Number of writes made to the store while a snapshot may exist.
MaxWrites == 2

SnapNone == [state |-> "none", seq |-> 0, view |-> <<>>]

\* No snapshot is modelled.
SnapIdle ==
    /\ versions = <<>>
    /\ snap = SnapNone

\* The store as it is, and no snapshot yet.
SnapInit ==
    /\ versions = <<kv>>
    /\ snap = SnapNone

SnapKeys == {PyBytes(<<1>>), PyBytes(<<2>>)}

NoChangeButStore ==
    /\ UNCHANGED codecVars
    /\ UNCHANGED cursorVars
    /\ UNCHANGED <<derivedVars, closeVars, writeVars, rangeVars, confVars>>

\* One write of Rdict: the handle must be open (get_db), then the engine
\* writes and the store has a new version.  The engine keeps the versions a
\* live snapshot can still read, and only the newest one otherwise.
WriteItem(h, op, k, v, fail) ==
    /\ CanStart(h, "Rdict")
    /\ req = ReqNone
    /\ Len(versions) <= MaxWrites
    /\ IF ~db[h]
       THEN /\ last' = Done(h, op, Closed, FALSE, FALSE, dbState = "open")
            /\ UNCHANGED <<kv, versions>>
       ELSE IF fail
       THEN /\ last' = Done(h, op, "EngineError", TRUE, TRUE, dbState = "open")
            /\ UNCHANGED <<kv, versions>>
       ELSE /\ last' = Done(h, op, "ok", TRUE, TRUE, dbState = "open")
            /\ kv' = Apply(kv, BatchOp(op, k, v))
            /\ versions' = IF snap.state = "live" THEN Append(versions, kv') ELSE <<kv'>>
    /\ NoHandleChange /\ NoResourceChange
    /\ UNCHANGED <<run, closedOnce>>
    /\ UNCHANGED <<req, snap>>
    /\ NoChangeButStore

\* Rdict::__setitem__.
SetItem(h, k, v, fail) ==
    /\ k \in WKeys(raw) /\ v \in WVals(raw)
    /\ WriteItem(h, "put", k, v, fail)

\* Rdict::__delitem__.
DelItem(h, k, fail) ==
    /\ k \in WKeys(raw)
    /\ WriteItem(h, "delete", k, <<>>, fail)

\* Rdict::snapshot -> Snapshot::new: the snapshot takes a reference to the
\* DB and the engine's sequence number of this moment.
SnapshotNew(h) ==
    /\ CanStart(h, "Rdict")
    /\ req = ReqNone
    /\ snap.state = "none"
    /\ IF ~db[h]
       THEN /\ last' = Done(h, "snapshot", Closed, FALSE, FALSE, dbState = "open")
            /\ NoHandleChange
            /\ UNCHANGED snap
       ELSE /\ last' = Done(h, "snapshot", "ok", TRUE, TRUE, dbState = "open")
            /\ Construct("Snapshot", FALSE, FALSE, TRUE)
            /\ snap' = [state |-> "live", seq |-> Len(versions), view |-> kv]
    /\ NoResourceChange
    /\ UNCHANGED <<run, closedOnce>>
    /\ UNCHANGED <<kv, req, versions>>
    /\ NoChangeButStore

SnapshotCellLatest(key) == Lookup(kv, EncodeKey(key, raw).bytes)

\* A read through the snapshot: the engine answers from the version the
\* snapshot's sequence number names.
SnapshotCell(key) == Lookup(versions[snap.seq], EncodeKey(key, raw).bytes)

\* Snapshot::__getitem__.
SnapshotGet(h, key) ==
    /\ CanStart(h, "Snapshot")
    /\ snap.state = "live"
    /\ LET cell == SnapshotCell(key)
           d == DecodeValue(cell.val, raw)
       IN IF ~cell.has THEN Answer("snapshot_get", <<key>>, "key not found", <<>>, 1, FALSE)
          ELSE IF d.status # "ok" THEN Answer("snapshot_get", <<key>>, "DecodeError", <<>>, 1, FALSE)
          ELSE Answer("snapshot_get", <<key>>, "ok", <<d.val>>, 1, FALSE)

\* The snapshot's sequence number is released before its reference to the DB.
SnapshotTeardown == <<"snapshot", "db">>

\* Dropping the Snapshot.
SnapshotDrop(h) ==
    /\ CanStart(h, "Snapshot")
    /\ req = ReqNone
    /\ Begin(h, "drop", SnapshotTeardown, "ok", FALSE)
    /\ NoHandleChange /\ NoResourceChange
    /\ UNCHANGED <<last, closedOnce>>
    /\ UNCHANGED <<kv, req, versions, snap>>
    /\ NoChangeButStore

\* The engine's release of the snapshot.
StepSnapshotRelease ==
    /\ Stepping("snapshot")
    /\ snap' = [snap EXCEPT !.state = "dropped"]
    /\ versions' = <<kv>>
    /\ Advance(Rest(Touch(run)))
    /\ UNCHANGED <<kind, db, cf, it>>
    /\ NoResourceChange
    /\ UNCHANGED <<kv, req>>
    /\ NoChangeButStore

SnapshotNext ==
    \/ \E h \in Handles, k \in WKeys(raw), v \in WVals(raw), fail \in BOOLEAN : SetItem(h, k, v, fail)
    \/ \E h \in Handles, k \in WKeys(raw), fail \in BOOLEAN : DelItem(h, k, fail)
    \/ \E h \in Handles : SnapshotNew(h)
    \/ \E h \in Handles, key \in SnapKeys : SnapshotGet(h, key)
    \/ Forget
    \/ \E h \in Handles : SnapshotDrop(h)
    \/ StepSnapshotRelease
    \/ \E h \in Handles, f \in {"ok", "EngineError"} : RdictClose(h, f)
    \/ \E h \in Handles : RdictDrop(h)
    \/ StepCf
    \/ StepDb

----------------------------------------------------------------------------
(***************************************************************************)
(* Rdict::delete_range (rdict.rs) over the default column family and the   *)
(* column family "a".                                                      *)
(***************************************************************************)

DrNone ==
    [pc |-> "none", named |-> FALSE, begin |-> PyNone, end |-> PyNone,
     from |-> <<>>, to |-> <<>>, todo |-> <<>>,
     done |-> <<>>, status |-> "none", pre |-> <<>>, preFam |-> <<>>]

\* No delete_range is modelled.
RangeIdle ==
    /\ fam = <<>>
    /\ dr = DrNone

\* The keys the two column families may hold, and the objects given as
\* begin and end: those keys, a key below and a key above them all, and an
\* object that is no key.
RangeKeys == {PyBytes(<<1>>), PyBytes(<<1, 0>>), PyBytes(<<2>>)}
RangeBounds == RangeKeys \cup {PyBytes(<<>>), PyBytes(<<3>>), PyOther(<<>>)}

\* The contents a column family can have over those keys.
Families(raw_mode) ==
    [{EncodeKey(k, raw_mode).bytes : k \in RangeKeys} ->
        {Absent, Present(EncodeValue(PyBytes(<<7>>), raw_mode).bytes)}]

\* The Rdict of the default column family (column_family: None) and the
\* Rdict that get_column_family("a") returned (column_family: Some), both
\* open or the first one closed since.
RangeHandles(closed) ==
    /\ kind = [h \in Handles |-> IF h <= 2 THEN "Rdict" ELSE "Holder"]
    /\ st = [h \in Handles |-> IF h <= 2 THEN "live" ELSE "free"]
    /\ db = [h \in Handles |-> IF closed THEN h = 2 ELSE h <= 2]
    /\ cf = [h \in Handles |-> h = 2]
    /\ it = [h \in Handles |-> FALSE]
    /\ dbState = "open" /\ cancels = 0 /\ releases = 0
    /\ run = Idle
    /\ last = IF closed THEN Done(1, "close", "ok", TRUE, TRUE, TRUE)
              ELSE Done(1, "get_column_family", "ok", TRUE, TRUE, TRUE)
    /\ closedOnce = closed

RangeInit(raw_mode) ==
    /\ kv \in Families(raw_mode)
    /\ fam \in Families(raw_mode)
    /\ dr = DrNone

InRangeEndIncluded(k, from, to) == ~LexLess(k, from) /\ ~LexLess(to, k)

\* The bounds of the iterator and of the engine's range deletion: from is
\* included, to is excluded, in the order of the bytes.
InRange(k, from, to) == ~LexLess(k, from) /\ LexLess(k, to)

\* The keys of S, least first.
RECURSIVE Ordered(_)
Ordered(S) == IF S = {} THEN <<>> ELSE <<Least(S)>> \o Ordered(S \ {Least(S)})

\* What the iterator of delete_range will yield: the keys the column
\* family holds within the bounds when the iterator is made, in order.
Scan(m, from, to) == Ordered({k \in DOMAIN m : m[k].has /\ InRange(k, from, to)})

\* DB::delete_range_cf_opt: every key within the bounds is gone at once.
EngineDeleteRange(m, from, to) ==
    [k \in DOMAIN m |-> IF InRange(k, from, to) THEN Absent ELSE m[k]]

NoChangeButRange ==
    /\ UNCHANGED lifeVars
    /\ UNCHANGED codecVars
    /\ UNCHANGED cursorVars
    /\ UNCHANGED <<derivedVars, closeVars, writeVars, snapVars, confVars>>
    /\ UNCHANGED req

\* Rdict::delete_range up to its first engine call: the closed handle and
\* the bounds that do not encode end it; on the handle of a named column
\* family the engine deletes the range in one call; on the default column
\* family an iterator over the range is made.
DeleteRange(h, begin, end, fail) ==
    /\ CanStart(h, "Rdict")
    /\ dr.pc = "none"
    /\ begin \in RangeBounds /\ end \in RangeBounds
    /\ LET from == EncodeKey(begin, raw)
           to == EncodeKey(end, raw)
           call == [DrNone EXCEPT !.pc = "done", !.named = cf[h],
                                  !.begin = begin, !.end = end,
                                  !.pre = kv, !.preFam = fam]
       IN IF ~db[h]
          THEN /\ dr' = [call EXCEPT !.status = Closed]
               /\ UNCHANGED <<kv, fam>>
          ELSE IF from.status # "ok" \/ to.status # "ok"
          THEN /\ dr' = [call EXCEPT !.status = "EncodeError"]
               /\ UNCHANGED <<kv, fam>>
          ELSE IF cf[h]
          THEN /\ dr' = [call EXCEPT !.from = from.bytes, !.to = to.bytes,
                                     !.status = IF fail THEN "EngineError" ELSE "ok"]
               /\ fam' = IF fail THEN fam ELSE EngineDeleteRange(fam, from.bytes, to.bytes)
               /\ UNCHANGED kv
          ELSE /\ dr' = [call EXCEPT !.pc = "scan", !.from = from.bytes, !.to = to.bytes,
                                     !.status = "running",
                                     !.todo = Scan(kv, from.bytes, to.bytes)]
               /\ UNCHANGED <<kv, fam>>
    /\ NoChangeButRange

DeleteNextKeyRollsBack(fail) ==
    /\ dr.pc = "scan"
    /\ IF dr.todo = <<>>
       THEN /\ dr' = [dr EXCEPT !.pc = "done", !.status = "ok"]
            /\ UNCHANGED kv
       ELSE IF fail
       THEN /\ dr' = [dr EXCEPT !.pc = "done", !.status = "EngineError"]
            /\ kv' = dr.pre
       ELSE /\ kv' = [kv EXCEPT ![Head(dr.todo)] = Absent]
            /\ dr' = [dr EXCEPT !.todo = Tail(@), !.done = Append(@, Head(dr.todo))]
    /\ UNCHANGED fam
    /\ NoChangeButRange

\* One turn of `for item in iter`: the iterator is exhausted and the call
\* returns Ok; or the item or its delete_opt is an error and the call
\* returns it; or the key is deleted and the loop goes on.
DeleteNextKey(fail) ==
    /\ dr.pc = "scan"
    /\ IF dr.todo = <<>>
       THEN /\ dr' = [dr EXCEPT !.pc = "done", !.status = "ok"]
            /\ UNCHANGED kv
       ELSE IF fail
       THEN /\ dr' = [dr EXCEPT !.pc = "done", !.status = "EngineError"]
            /\ UNCHANGED kv
       ELSE /\ kv' = [kv EXCEPT ![Head(dr.todo)] = Absent]
            /\ dr' = [dr EXCEPT !.todo = Tail(@), !.done = Append(@, Head(dr.todo))]
    /\ UNCHANGED fam
    /\ NoChangeButRange

\* The caller has the result of the call.
RangeReturn ==
    /\ dr.pc = "done"
    /\ dr' = DrNone
    /\ UNCHANGED <<kv, fam>>
    /\ NoChangeButRange

RangeNext ==
    \/ \E h \in Handles, begin \in RangeBounds, end \in RangeBounds, fail \in BOOLEAN :
          DeleteRange(h, begin, end, fail)
    \/ \E fail \in BOOLEAN : DeleteNextKey(fail)
    \/ RangeReturn
    \/ ReaderGet

----------------------------------------------------------------------------
(***************************************************************************)
(* raw_mode and the prefix-extractor registry: Rdict::new,                 *)
(* set_read_options, create_column_family, get_column_family (rdict.rs).   *)
(***************************************************************************)

CcNone == [op |-> "none", h |-> 0, name |-> "", prefix |-> FALSE, res |-> "none"]

\* No store has been opened through Rdict::new.
ConfIdle ==
    /\ omode = [h \in Handles |-> FALSE]
    /\ rmode = [h \in Handles |-> FALSE]
    /\ registry = {}
    /\ saved = {}
    /\ fams = {}
    /\ cc = CcNone


\* The names column families are given, and the options that matter here:
\* OptionsPy.raw_mode and whether OptionsPy.prefix_extractor is Some.
CfNames == {"a"}
DefaultCf == "default"
CfOptions == [raw_mode : BOOLEAN, prefix_extractor : BOOLEAN]

\* The column_families argument of Rdict::new: some names with options.
OpenArgs == UNION {[S -> CfOptions] : S \in SUBSET CfNames}

\* Nothing is open yet: the directory holds a store of mode raw, and a
\* WriteBatchPy of either mode exists.
ConfInit ==
    /\ kind = [h \in Handles |-> "Rdict"]
    /\ st = [h \in Handles |-> "free"]
    /\ db = [h \in Handles |-> FALSE]
    /\ cf = [h \in Handles |-> FALSE]
    /\ it = [h \in Handles |-> FALSE]
    /\ dbState = "unopened" /\ cancels = 0 /\ releases = 0
    /\ run = Idle /\ last = NoOp /\ closedOnce = FALSE
    /\ ConfIdle

Called(op, h, name, prefix, res) ==
    [op |-> op, h |-> h, name |-> name, prefix |-> prefix, res |-> res]

NoConfChange == UNCHANGED <<omode, rmode, registry, saved, fams>>

NoConfOtherChange ==
    /\ UNCHANGED <<run, last, closedOnce, cancels, releases, raw>>
    /\ UNCHANGED <<a, b, ek, ev, dk, dv, stored>>
    /\ UNCHANGED cursorVars
    /\ UNCHANGED <<derivedVars, storeVars, closeVars, writeVars, snapVars, rangeVars>>

\* The prefix extractors Rdict::new collects: the one of the main options
\* under "default", and those of the column families under their names.
PrefixExtractors(prefix, cfs) ==
    (IF prefix THEN {DefaultCf} ELSE {})
    \cup {n \in DOMAIN cfs : cfs[n].prefix_extractor}

\* Rdict::new(path, Options(raw_mode = raw, prefix), column_families = cfs):
\* every column family's options must have the raw_mode of the main
\* options; then the engine opens the store, the config is saved and the
\* Rdict is built with read options of that raw_mode.
RdictNew(prefix, cfs, out) ==
    /\ run.h = 0 /\ dbState = "unopened" /\ FreeSlots # {}
    /\ cc.op = "none"
    /\ out \in {"ok", "EngineError"}
    /\ IF \E n \in DOMAIN cfs : cfs[n].raw_mode # raw
       THEN /\ cc' = Called("new", 0, "", prefix, "ArgError")
            /\ NoHandleChange /\ NoConfChange /\ UNCHANGED dbState
       ELSE IF out # "ok"
       THEN /\ cc' = Called("new", 0, "", prefix, out)
            /\ NoHandleChange /\ NoConfChange /\ UNCHANGED dbState
       ELSE /\ cc' = Called("new", NewSlot, "", prefix, "ok")
            /\ Construct("Rdict", FALSE, FALSE, TRUE)
            /\ dbState' = "open"
            /\ omode' = [omode EXCEPT ![NewSlot] = raw]
            /\ rmode' = [rmode EXCEPT ![NewSlot] = raw]
            /\ registry' = PrefixExtractors(prefix, cfs)
            /\ saved' = PrefixExtractors(prefix, cfs)
            /\ fams' = DOMAIN cfs
    /\ NoConfOtherChange

SetReadOptionsAssignsFirst(h, raw_mode) ==
    /\ CanStart(h, "Rdict") /\ cc.op = "none"
    /\ rmode' = [rmode EXCEPT ![h] = raw_mode]
    /\ cc' = Called("set_read_options", h, "", FALSE,
                    IF omode[h] # raw_mode THEN "ArgError" ELSE "ok")
    /\ NoHandleChange /\ UNCHANGED <<dbState, omode, registry, saved, fams>>
    /\ NoConfOtherChange

\* Rdict::set_read_options(ReadOptions(raw_mode)): refused when the
\* raw_mode is not that of the handle's options; assigned otherwise.
SetReadOptions(h, raw_mode) ==
    /\ CanStart(h, "Rdict") /\ cc.op = "none"
    /\ IF omode[h] # raw_mode
       THEN /\ cc' = Called("set_read_options", h, "", FALSE, "ArgError")
            /\ UNCHANGED rmode
       ELSE /\ cc' = Called("set_read_options", h, "", FALSE, "ok")
            /\ rmode' = [rmode EXCEPT ![h] = raw_mode]
    /\ NoHandleChange /\ UNCHANGED <<dbState, omode, registry, saved, fams>>
    /\ NoConfOtherChange

\* Rdict::dump_config: self.path() fails on a closed handle; otherwise the
\* config, with the registry as it is now, is written to the config file.
DumpConfig(h, fail) ==
    IF ~db[h] THEN Closed ELSE IF fail = "save" THEN "IoError" ELSE "ok"

\* The Rdict get_column_family builds: the caller's options and read
\* options, and the same registry.
ColumnFamilyRdict(h) ==
    /\ Construct("Rdict", TRUE, FALSE, TRUE)
    /\ omode' = [omode EXCEPT ![NewSlot] = omode[h]]
    /\ rmode' = [rmode EXCEPT ![NewSlot] = rmode[h]]

CreateColumnFamilyRegistersLast(h, name, options, fail) ==
    /\ CanStart(h, "Rdict") /\ cc.op = "none"
    /\ fail \in {"none", "save", "create"}
    /\ IF options.raw_mode # omode[h]
       THEN /\ cc' = Called("create_column_family", h, name,
                            options.prefix_extractor, "ArgError")
            /\ NoHandleChange /\ NoConfChange
       ELSE IF DumpConfig(h, fail) # "ok"
       THEN /\ cc' = Called("create_column_family", h, name,
                            options.prefix_extractor, DumpConfig(h, fail))
            /\ NoHandleChange /\ NoConfChange
       ELSE IF fail = "create" \/ name \in fams
       THEN /\ cc' = Called("create_column_family", h, name,
                            options.prefix_extractor, "EngineError")
            /\ saved' = registry
            /\ NoHandleChange /\ UNCHANGED <<omode, rmode, fams, registry>>
       ELSE /\ FreeSlots # {}
            /\ cc' = Called("create_column_family", h, name,
                            options.prefix_extractor, "ok")
            /\ registry' = IF options.prefix_extractor
                           THEN registry \cup {name} ELSE registry
            /\ saved' = registry'
            /\ fams' = fams \cup {name}
            /\ ColumnFamilyRdict(h)
    /\ UNCHANGED dbState
    /\ NoConfOtherChange

\* Rdict::create_column_family(name, options): the raw_mode check; the
\* prefix extractor is put in the registry; dump_config; then create_cf
\* in the engine (which refuses a name that exists) and get_column_family.
CreateColumnFamilyNamed(h, name, options, fail) ==
    /\ CanStart(h, "Rdict") /\ cc.op = "none"
    /\ fail \in {"none", "save", "create"}
    /\ IF options.raw_mode # omode[h]
       THEN /\ cc' = Called("create_column_family", h, name,
                            options.prefix_extractor, "ArgError")
            /\ NoHandleChange /\ NoConfChange
       ELSE /\ registry' = IF options.prefix_extractor
                           THEN registry \cup {name} ELSE registry
            /\ IF DumpConfig(h, fail) # "ok"
               THEN /\ cc' = Called("create_column_family", h, name,
                                    options.prefix_extractor, DumpConfig(h, fail))
                    /\ NoHandleChange /\ UNCHANGED <<omode, rmode, saved, fams>>
               ELSE IF fail = "create" \/ name \in fams
               THEN /\ cc' = Called("create_column_family", h, name,
                                    options.prefix_extractor, "EngineError")
                    /\ saved' = registry'
                    /\ NoHandleChange /\ UNCHANGED <<omode, rmode, fams>>
               ELSE /\ FreeSlots # {}
                    /\ cc' = Called("create_column_family", h, name,
                                    options.prefix_extractor, "ok")
                    /\ saved' = registry'
                    /\ fams' = fams \cup {name}
                    /\ ColumnFamilyRdict(h)
    /\ UNCHANGED dbState
    /\ NoConfOtherChange

\* Rdict::get_column_family(name) on its own.
GetColumnFamilyNamed(h, name) ==
    /\ CanStart(h, "Rdict") /\ cc.op = "none"
    /\ IF ~db[h]
       THEN /\ cc' = Called("get_column_family", h, name, FALSE, Closed)
            /\ NoHandleChange /\ UNCHANGED <<omode, rmode>>
       ELSE IF name \notin fams
       THEN /\ cc' = Called("get_column_family", h, name, FALSE, "ArgError")
            /\ NoHandleChange /\ UNCHANGED <<omode, rmode>>
       ELSE /\ FreeSlots # {}
            /\ cc' = Called("get_column_family", h, name, FALSE, "ok")
            /\ ColumnFamilyRdict(h)
    /\ UNCHANGED <<dbState, registry, saved, fams>>
    /\ NoConfOtherChange

\* The one operation the batches are made of here.
ConfOp(raw_mode) ==
    BatchOp("put", EncodeKey(PyBytes(<<1>>), raw_mode).bytes,
            EncodeValue(PyBytes(<<7>>), raw_mode).bytes)

\* The call has returned and its result has been looked at.
ConfReturn ==
    /\ cc.op # "none"
    /\ cc' = CcNone
    /\ NoHandleChange /\ NoConfChange /\ UNCHANGED dbState
    /\ NoConfOtherChange

ConfNext ==
    \/ \E prefix \in BOOLEAN, cfs \in OpenArgs, out \in {"ok", "EngineError"} :
          RdictNew(prefix, cfs, out)
    \/ \E h \in Handles, m \in BOOLEAN : SetReadOptions(h, m)
    \/ \E h \in Handles, n \in CfNames, o \in CfOptions,
          fail \in {"none", "save", "create"} : CreateColumnFamilyNamed(h, n, o, fail)
    \/ \E h \in Handles, n \in CfNames : GetColumnFamilyNamed(h, n)
    \/ ConfReturn
    \/ \E m \in BOOLEAN :
          /\ cc.op = "none" /\ batch.ops = <<>>
          /\ BatchAdd(ConfOp(m).op, ConfOp(m).k, ConfOp(m).v)
    \/ \E h \in Handles, fail \in BOOLEAN :
          cc.op = "none" /\ wr.n = 0 /\ Write(h, fail)
    \/ \E h \in Handles : cc.op = "none" /\ RdictClose(h, "ok")
    \/ StepCf
    \/ StepDb

----------------------------------------------------------------------------
(***************************************************************************)
(* Specifications.                                                         *)
(***************************************************************************)

\* The store has just been opened and no codec call has been made.
InitLife ==
    /\ LifeInit
    /\ raw = FALSE /\ a = PyNone /\ b = PyNone /\ stored = <<>> /\ CodecIdle
    /\ CursorIdle /\ DerivedIdle /\ StoreIdle /\ CloseIdle /\ WriteIdle /\ SnapIdle
    /\ RangeIdle /\ ConfIdle

\* The handles of one store; the codec is not called.
SpecLife == InitLife /\ [][LifeNext]_vars

\* Two objects are about to go through the codec of an open Rdict.
InitCodec ==
    /\ CodecInit
    /\ LifeInit /\ kind[1] = "Rdict"
    /\ CursorIdle /\ DerivedIdle /\ StoreIdle /\ CloseIdle /\ WriteIdle /\ SnapIdle
    /\ RangeIdle /\ ConfIdle

\* The codec on two objects; the handles are left alone.
SpecCodec == InitCodec /\ [][CodecNext]_vars

\* An open Rdict finds bytes in its store.
InitDecode ==
    /\ DecodeInit
    /\ LifeInit /\ kind[1] = "Rdict"
    /\ CursorIdle /\ DerivedIdle /\ StoreIdle /\ CloseIdle /\ WriteIdle /\ SnapIdle
    /\ RangeIdle /\ ConfIdle

\* decode_value on what is found in the store.
SpecDecode == InitDecode /\ [][DecodeNext]_vars

\* The handles after Rdict::iter has returned a cursor: the Rdict and the
\* RdictIter, each with its reference to the DB.
CursorHandles ==
    /\ kind = [h \in Handles |-> IF h = 1 THEN "Rdict"
                                 ELSE IF h = 2 THEN "RdictIter" ELSE "Holder"]
    /\ st = [h \in Handles |-> IF h <= 2 THEN "live" ELSE "free"]
    /\ db = [h \in Handles |-> h <= 2]
    /\ cf = [h \in Handles |-> FALSE]
    /\ it = [h \in Handles |-> h = 2]
    /\ dbState = "open" /\ cancels = 0 /\ releases = 0
    /\ run = Idle
    /\ last = Done(1, "iter", "ok", TRUE, TRUE, TRUE)
    /\ closedOnce = FALSE

\* One thread has a fresh cursor over a column family of either mode.
InitCursor ==
    /\ CursorHandles
    /\ raw \in BOOLEAN
    /\ a = PyNone /\ b = PyNone /\ stored = <<>> /\ CodecIdle
    /\ CursorInit(1, Stores(raw))
    /\ DerivedIdle /\ StoreIdle /\ CloseIdle /\ WriteIdle /\ SnapIdle
    /\ RangeIdle /\ ConfIdle

\* The methods of one cursor, called one after the other.
SpecCursor == InitCursor /\ [][CursorNext]_vars

\* Two threads share a fresh cursor over the keys 1 and 2.
InitCursorThreads ==
    /\ CursorHandles
    /\ raw = FALSE
    /\ a = PyNone /\ b = PyNone /\ stored = <<>> /\ CodecIdle
    /\ CursorInit(2, {{EncodeKey(PyInt(1), FALSE).bytes, EncodeKey(PyInt(2), FALSE).bytes}})
    /\ DerivedIdle /\ StoreIdle /\ CloseIdle /\ WriteIdle /\ SnapIdle
    /\ RangeIdle /\ ConfIdle

\* The methods of one cursor, called from two threads.
SpecCursorThreads == InitCursorThreads /\ [][CursorNext]_vars

\* A column family of either mode, before a derived cursor is asked for.
\* A key that is no encoding of any object: the tag of a string before
\* bytes that are not UTF-8 (written in raw mode, or by another program).
BadKey == <<2, 255>>

\* The column families of a typed store that hold such a key among others.
Damaged ==
    {S \cup {BadKey} : S \in {T \in Stores(FALSE) : Cardinality(T) < MaxKeys}}

InitDerived ==
    /\ CursorHandles
    /\ raw \in BOOLEAN
    /\ a = PyNone /\ b = PyNone /\ stored = <<>> /\ CodecIdle
    /\ CursorInit(0, Stores(raw))
    /\ DerivedIdle /\ StoreIdle /\ CloseIdle /\ WriteIdle /\ SnapIdle
    /\ RangeIdle /\ ConfIdle

\* One derived cursor is built and iterated.
SpecDerived == InitDerived /\ [][DerivedNext]_vars

\* No cursor yet over a typed column family that holds a damaged key.
InitDamaged ==
    /\ CursorHandles
    /\ raw = FALSE
    /\ a = PyNone /\ b = PyNone /\ stored = <<>> /\ CodecIdle
    /\ CursorInit(0, Damaged)
    /\ DerivedIdle /\ StoreIdle /\ CloseIdle /\ WriteIdle /\ SnapIdle
    /\ RangeIdle /\ ConfIdle

\* One derived cursor is built and iterated over it.
SpecDamaged == InitDamaged /\ [][DerivedNext]_vars

\* An open Rdict of either mode over some contents.
InitStore ==
    /\ LifeInit /\ kind[1] = "Rdict"
    /\ raw \in BOOLEAN
    /\ a = PyNone /\ b = PyNone /\ stored = <<>> /\ CodecIdle
    /\ CursorIdle /\ DerivedIdle /\ CloseIdle /\ WriteIdle /\ SnapIdle
    /\ RangeIdle /\ ConfIdle
    /\ StoreInit(raw)

\* Reads of the store.
SpecStore == InitStore /\ [][StoreNext]_vars

\* Two or three threads own the holders of one open DB.
InitClose ==
    /\ LifeInit /\ kind[1] = "Holder"
    /\ raw = FALSE
    /\ a = PyNone /\ b = PyNone /\ stored = <<>> /\ CodecIdle
    /\ CursorIdle /\ DerivedIdle /\ StoreIdle /\ WriteIdle /\ SnapIdle
    /\ RangeIdle /\ ConfIdle
    /\ \E n \in {2, 3} : CloseInit(n)

\* The holders are closed and dropped by their threads, in any interleaving.
SpecClose == InitClose /\ [][CloseNext]_vars

\* The contents two keys can have.
Contents(raw_mode) ==
    [WKeys(raw_mode) -> {Absent} \cup {Present(v) : v \in WVals(raw_mode)}]

\* An open Rdict with some contents, and an empty batch of either mode.
InitWrite ==
    /\ LifeInit /\ kind[1] = "Rdict"
    /\ raw \in BOOLEAN
    /\ a = PyNone /\ b = PyNone /\ stored = <<>> /\ CodecIdle
    /\ CursorIdle /\ DerivedIdle /\ CloseIdle /\ SnapIdle
    /\ RangeIdle /\ ConfIdle
    /\ kv \in Contents(raw) /\ req = ReqNone
    /\ WriteInit

\* A batch is filled and written while another thread reads.
SpecWrite == InitWrite /\ [][WriteNext]_vars

\* The two handles over some contents of the two column families.
InitRange ==
    /\ \E closed \in BOOLEAN : RangeHandles(closed)
    /\ raw \in BOOLEAN
    /\ a = PyNone /\ b = PyNone /\ stored = <<>> /\ CodecIdle
    /\ CursorIdle /\ DerivedIdle /\ CloseIdle /\ WriteIdle /\ SnapIdle
    /\ ConfIdle
    /\ req = ReqNone
    /\ RangeInit(raw)

\* Ranges are deleted through either handle while another reader reads the
\* default column family.
SpecRange == InitRange /\ [][RangeNext]_vars

\* A store of either mode, not opened yet, and an empty batch of either mode.
InitConf ==
    /\ ConfInit
    /\ raw \in BOOLEAN
    /\ a = PyNone /\ b = PyNone /\ stored = <<>> /\ CodecIdle
    /\ CursorIdle /\ DerivedIdle /\ CloseIdle /\ SnapIdle /\ RangeIdle
    /\ kv = [k \in WKeys(raw) |-> Absent] /\ req = ReqNone
    /\ WriteInit

\* The store is opened, column families are created, read options are set
\* and batches are written through the handles, which are closed in between.
SpecConf == InitConf /\ [][ConfNext]_vars

\* An open Rdict with some contents, before a snapshot is taken.
InitSnapshot ==
    /\ LifeInit /\ kind[1] = "Rdict"
    /\ raw \in BOOLEAN
    /\ a = PyNone /\ b = PyNone /\ stored = <<>> /\ CodecIdle
    /\ CursorIdle /\ DerivedIdle /\ CloseIdle /\ WriteIdle
    /\ RangeIdle /\ ConfIdle
    /\ kv \in Contents(raw) /\ req = ReqNone
    /\ SnapInit

\* Writes, a snapshot and reads through it, and the teardown of both handles.
SpecSnapshot == InitSnapshot /\ [][SnapshotNext]_vars

----------------------------------------------------------------------------
(***************************************************************************)
(* Handle lifecycle: properties.                                           *)
(***************************************************************************)

\* Operations a caller invokes on a handle (everything but teardown).
UserOps == SimpleOps \cup IterOps
           \cup {"get_column_family", "create_column_family",
                 "get_column_family_handle", "iter", "items", "keys", "values",
                 "RdictIter::new", "Holder.get"}

\* Some handle that was closed by close() (or created closed) still exists.
ClosedHandleExists == \E g \in Handles : st[g] = "live" /\ ~db[g]

C3_NoPrematureTeardown ==
    \A h \in Handles : db[h] => (dbState = "open" /\ cancels = 0 /\ releases = 0)

C3_Witness ==
    /\ run.h = 0 /\ closedOnce /\ last.op = "close" /\ last.wasOpen
    /\ \E h \in Handles : h # last.h /\ st[h] = "live" /\ db[h]
    /\ dbState = "open"

\* C4: DbReferenceHolder::close is idempotent.  The step that takes the
\* reference of an open holder gives the reference up and goes on to cancel
\* the background work exactly when it was the only reference; on a holder
\* that is already closed the same step ends the call with the references,
\* the counters and the resource unchanged; and no other step cancels.
C4_CloseIdempotent ==
    [][ /\ (Stepping("holder") /\ db[run.h]) =>
              /\ ~db'[run.h]
              /\ (run'.h # 0 /\ run'.todo # <<>> /\ Head(run'.todo) = "cancel")
                     <=> (StrongCount = 1)
        /\ (Stepping("holder") /\ ~db[run.h]) =>
              /\ run'.h = 0
              /\ UNCHANGED <<db, cf, it, dbState, cancels, releases>>
        /\ (cancels' # cancels) => (Stepping("cancel") /\ run.wasOpen /\ StrongCount = 0)
      ]_vars

C4_Witness ==
    /\ run.h = 0 /\ last.op = "close" /\ ~last.wasOpen
    /\ kind[last.h] = "Holder" /\ st[last.h] = "live"
    /\ closedOnce

\* C5: every public operation on a closed Rdict returns "DB already closed"
\* and leaves the resource alone; get() of a closed holder is None and a
\* cursor cannot be made from a closed holder: that fails with the closed
\* error.
C5_ClosedHandleReportsClosed ==
    (last.op \in UserOps \cup {"close"} /\ ~last.wasOpen /\ last.h # 0) =>
        /\ ~last.touched
        /\ kind[last.h] = "Rdict" => last.res = Closed
        /\ last.op = "Holder.get" => last.res = "None"
        /\ last.op = "RdictIter::new" => last.res = DbClosedError

\* C6: a native iterator or a column-family handle is alive only while its
\* handle still holds the DB reference, so the resource is never released
\* with a native sub-resource of it alive.
C6_SubResourceReleasedFirst ==
    \A h \in Handles : (it[h] \/ cf[h]) => (db[h] /\ dbState = "open")

C6_Witness ==
    /\ run.h = 0 /\ dbState = "released"
    /\ last.op = "drop" /\ kind[last.h] = "RdictIter" /\ last.wasOpen
    /\ \E g \in Handles : kind[g] \in {"ColumnFamilyPy", "Rdict"} /\ st[g] = "dropped"

----------------------------------------------------------------------------
(***************************************************************************)
(* Codec: properties.                                                      *)
(***************************************************************************)

\* The order Python gives two objects of one type: False < True, integers
\* by value, bytes by byte and str by code point (both lexicographic).
NaturalLess(x, y) ==
    CASE x.ty = "bool"  -> ~x.b /\ y.b
      [] x.ty = "int"   -> x.n < y.n
      [] x.ty = "bytes" -> LexLess(x.s, y.s)
      [] x.ty = "str"   -> LexLess(x.s, y.s)
      [] OTHER -> FALSE

\* The tag table of the on-disk format.
TagTable(ty) ==
    CASE ty = "bytes" -> 1 [] ty = "str" -> 2 [] ty = "int" -> 3
      [] ty = "float" -> 4 [] ty = "bool" -> 5 [] ty = "other" -> 6

ScalarTypes == {"bytes", "str", "int", "float", "bool"}

\* C7: for every bytes, str, int, float or bool object, decoding what
\* encode_value or encode_key wrote (not in raw mode) gives an object of the
\* same type and value.
C7_RoundTrip ==
    (~raw /\ a.ty \in ScalarTypes) =>
        /\ dv.status # "none" => dv = DecOk(a)
        /\ dk.status # "none" => dk = DecOk(a)

C7_Witness ==
    /\ ~raw /\ a.ty = "int" /\ a.n < -128
    /\ dv = DecOk(a) /\ dk = DecOk(a)

\* C8: of two keys of one type (bool, int, bytes or str; the order of float
\* keys is left open by the design), the smaller in the type's natural
\* order has the byte-wise smaller encoding.
C8_OrderPreserved ==
    (/\ ~raw /\ a.ty = b.ty /\ a.ty \in {"bool", "int", "bytes", "str"}
     /\ ek[1].status = "ok" /\ ek[2].status = "ok"
     /\ NaturalLess(a, b))
    => LexLess(ek[1].bytes, ek[2].bytes)

\* C9: two objects of different types never get the same encoding, and the
\* byte-wise order of their encodings is the order of their tags, whatever
\* the payloads.
C9_TagDecidesAcrossTypes ==
    (~raw /\ a.ty # b.ty) =>
        \A enc \in {ek, ev} :
            (enc[1].status = "ok" /\ enc[2].status = "ok") =>
                /\ enc[1].bytes # enc[2].bytes
                /\ LexLess(enc[1].bytes, enc[2].bytes)
                      <=> (TagTable(a.ty) < TagTable(b.ty))
                /\ LexLess(enc[2].bytes, enc[1].bytes)
                      <=> (TagTable(b.ty) < TagTable(a.ty))

C9_Witness ==
    /\ ~raw /\ a = PyBytes(<<255>>) /\ b = PyOther(<<>>)
    /\ ev[1].status = "ok" /\ ev[2].status = "ok"

\* Length of the payload where the format fixes it from the object alone.
FixedPayloadLen(v) ==
    CASE v.ty = "bytes" -> Len(v.s)
      [] v.ty = "other" -> Len(v.s)
      [] v.ty = "float" -> 8
      [] v.ty = "bool"  -> 1
      [] OTHER -> -1

\* C10: an encoded key or value (not in raw mode) starts with the tag of
\* the object's type (1 bytes, 2 str, 3 int, 4 float, 5 bool, 6 other) and
\* the payload follows it; decode_value gives an object of the type of the
\* tag; encode_key and encode_value write the same bytes for an object both
\* accept.
C10_TagThenPayload ==
    ~raw =>
        /\ \A x \in 1..2 :
              LET v == IF x = 1 THEN a ELSE b
              IN /\ \A enc \in {ek, ev} :
                       enc[x].status = "ok" =>
                           /\ Len(enc[x].bytes) >= 1
                           /\ enc[x].bytes[1] = TagTable(v.ty)
                           /\ FixedPayloadLen(v) >= 0 =>
                                  Len(enc[x].bytes) = 1 + FixedPayloadLen(v)
                           /\ v.ty \in {"bytes", "other"} => Tail(enc[x].bytes) = v.s
                 /\ (ek[x].status = "ok" /\ ev[x].status = "ok") => ek[x] = ev[x]
        /\ dv.status # "none" => (dv.status = "ok" /\ dv.val.ty = a.ty)
        /\ dk.status # "none" => (dk.status = "ok" /\ dk.val.ty = a.ty)

C10_Witness ==
    /\ ~raw /\ a.ty = "other" /\ a.s # <<>> /\ b.ty = "float"
    /\ dv.status = "ok"
    /\ ek[2].status = "ok" /\ ev[2].status = "ok"

\* C11: in raw mode encode_key and encode_value return the byte string they
\* are given, unchanged, and an error for an object that is not a byte
\* string; decode_value returns the stored bytes unchanged, as bytes.
C11_RawModeIdentity ==
    raw =>
        /\ \A x \in 1..2 : \A enc \in {ek, ev} :
              LET v == IF x = 1 THEN a ELSE b
              IN enc[x].status # "none" =>
                    IF v.ty = "bytes" THEN enc[x] = EncOk(v.s)
                    ELSE enc[x].status = "err"
        /\ dk.status # "none" => dk = DecOk(PyBytes(ek[1].bytes)) /\ dk.val = a
        /\ dv.status # "none" => dv = DecOk(PyBytes(ev[1].bytes)) /\ dv.val = a

C11_Witness ==
    /\ raw /\ a = PyBytes(<<1, 255>>) /\ b.ty = "str"
    /\ ek[2].status = "err" /\ ev[2].status = "err"
    /\ dk = DecOk(a) /\ dv = DecOk(a)

\* The stored bytes carry the float tag without 8 payload bytes, or the
\* bool tag without a payload byte.
Truncated ==
    /\ stored # <<>>
    /\ \/ stored[1] = 4 /\ Len(stored) # 9
       \/ stored[1] = 5 /\ Len(stored) = 1

\* C12: decode_value (not in raw mode) answers truncated float or bool
\* bytes with an error value; it does not panic.
C12_TruncatedIsAnError ==
    (~raw /\ Truncated) =>
        \A d \in {dk, dv} : d.status \notin {"ok", "panic"}

\* C13: decode_value (not in raw mode) returns an error and no value for
\* empty bytes, for a first byte that is none of the tags 1..6 and for text
\* that is not UTF-8; a value it does return has the type of the tag, and
\* text and bytes are the payload itself.
C13_CorruptBytesAreErrors ==
    ~raw => \A d \in {dk, dv} :
        d.status # "none" =>
            /\ (stored = <<>> \/ stored[1] \notin 1..6) =>
                   d = DecErr("Unknown value type")
            /\ (stored # <<>> /\ stored[1] = 2 /\ Tail(stored) \in InvalidUtf8Samples) =>
                   d = DecErr("utf-8 decoding error")
            /\ d.status # "ok" => d.val = PyNone
            /\ d.status = "ok" =>
                   /\ TagTable(d.val.ty) = stored[1]
                   /\ d.val.ty = "str" => Utf8Encode(d.val.s) = Tail(stored)
                   /\ d.val.ty \in {"bytes", "other"} => d.val.s = Tail(stored)

C13_Witness ==
    /\ ~raw /\ stored = <<2, 237, 160, 128>>
    /\ dv = DecErr("utf-8 decoding error") /\ dk = DecErr("utf-8 decoding error")

\* C14: encode_key (not in raw mode) accepts bytes, str, int, float and
\* bool and returns an error for an object of any other type, while
\* encode_value writes such an object as tag 6 followed by what the
\* serializer returned and fails only when the serializer itself raised.
C14_OpaqueOnlyForValues ==
    ~raw => \A x \in 1..2 :
        LET v == IF x = 1 THEN a ELSE b
        IN /\ ek[x].status # "none" =>
                  ek[x].status = (IF v.ty \in ScalarTypes THEN "ok" ELSE "err")
           /\ (ev[x].status # "none" /\ v.ty = "other") =>
                  ev[x] = (IF v = PyUnpicklable THEN EncDumpsErr
                           ELSE EncOk(<<6>> \o v.s))
           /\ ev[x].status # "err"

C14_Witness ==
    /\ ~raw /\ a = PyOther(<<128, 4>>) /\ b = PyUnpicklable
    /\ ek[1].status = "err" /\ ev[1] = EncOk(<<6, 128, 4>>)
    /\ ek[2].status = "err" /\ ev[2] = EncDumpsErr

----------------------------------------------------------------------------
(***************************************************************************)
(* Cursor: properties.                                                     *)
(***************************************************************************)

\* C15: when two threads call methods of one cursor, no seek, next or prev
\* of one takes effect between the validity check and the fetch of a key(),
\* value() or columns() call of the other: until the fetch the native
\* iterator is the valid one the check saw, and no read ever fetched from
\* an invalid position.  (Threads are allowed to switch between any two
\* native calls; the property rests on the borrow of the receiver alone.)
C15_CheckAndFetchNotInterleaved ==
    \A t \in Threads :
        /\ ctx[t].pc = "checked" =>
               iter.valid /\ iter = ctx[t].before /\ ~aborted
        /\ ctx[t].fetch # "stale"
        /\ ctx[t].fetch = "valid" => ctx[t].after = ctx[t].before

C15_Witness ==
    \E t \in Threads, u \in Threads :
        /\ ctx[t].pc = "checked" /\ ctx[t].op = "key"
        /\ ctx[u].pc = "done" /\ ctx[u].op \in {"seek", "next", "prev"}
        /\ ctx[u].res = "AlreadyBorrowed"

\* C16: key(), value() and columns() called while the cursor is not valid
\* (fresh, run off either end, or failed in the engine) return None without
\* fetching anything from the native iterator, whatever it pointed to last.
C16_InvalidReadsNone ==
    \A t \in Threads :
        (ctx[t].pc = "done" /\ ctx[t].op \in ReadOps /\ ~ctx[t].after.valid) =>
            /\ ctx[t].res = "None" /\ ctx[t].val = PyNone
            /\ ctx[t].fetch = "no"

C16_Witness ==
    /\ ~iter.valid /\ ~iter.err /\ iter.key # <<>>
    /\ ctx[1].pc = "done" /\ ctx[1].op = "value" /\ ctx[1].res = "None"

\* The key the caller sees for a stored key.
KeyOf(k) == DecodeValue(k, raw).val

\* The order of keys the design promises: by tag across types, the natural
\* order within a type.
KeyLess(x, y) ==
    IF x.ty # y.ty THEN TagTable(x.ty) < TagTable(y.ty) ELSE NaturalLess(x, y)

\* The reference: the keys of the column family as a sorted set.
Reference == {KeyOf(k) : k \in store}
RefLeast(S) == CHOOSE x \in S : \A y \in S : ~KeyLess(y, x)
RefGreatest(S) == CHOOSE x \in S : \A y \in S : ~KeyLess(x, y)

\* The cursor state `at` is: on the first / last key of S, or invalid
\* without error when S is empty.
LandsOn(at, S, first) ==
    IF S = {} THEN ~at.valid /\ ~at.err
    ELSE at.valid /\ KeyOf(at.key) = (IF first THEN RefLeast(S) ELSE RefGreatest(S))

\* A call of op that returned normally, the engine reporting no error.
Completed(t, op) ==
    /\ ctx[t].pc = "done" /\ ctx[t].op = op
    /\ ctx[t].res = "ok" /\ ~ctx[t].failed

\* C17: seek(target) leaves the cursor on the smallest key that is not less
\* than target, and invalid without error when there is no such key.
C17_SeekLowerBound ==
    \A t \in Threads :
        Completed(t, "seek") =>
            LandsOn(ctx[t].after, {k \in Reference : ~KeyLess(k, ctx[t].arg)}, TRUE)

\* C18: seek_for_prev(target) leaves the cursor on the greatest key that is
\* not greater than target, and invalid without error when there is no such
\* key.
C18_SeekForPrevUpperBound ==
    \A t \in Threads :
        Completed(t, "seek_for_prev") =>
            LandsOn(ctx[t].after, {k \in Reference : ~KeyLess(ctx[t].arg, k)}, FALSE)

C20_NextIsSuccessor ==
    \A t \in Threads :
        (Completed(t, "next") /\ ctx[t].before.valid) =>
            LandsOn(ctx[t].after,
                    {k \in Reference : KeyLess(KeyOf(ctx[t].before.key), k)}, TRUE)

\* C22: status() leaves the native iterator as it found it (same position,
\* same validity), and wherever the cursor is valid status() reports no
\* error.
C22_StatusReadsOnly ==
    /\ iter.valid => ~iter.err
    /\ \A t \in Threads :
          (ctx[t].pc = "done" /\ ctx[t].op = "status") =>
              /\ ctx[t].after = ctx[t].before /\ iter = ctx[t].before
              /\ ctx[t].before.valid => ctx[t].res = "ok"
              /\ ctx[t].res = (IF ctx[t].before.err THEN "EngineError" ELSE "ok")

C22_Witness ==
    /\ Cardinality(store) > 1
    /\ iter = Positioned(Greatest(store))
    /\ ctx[1].pc = "done" /\ ctx[1].op = "status" /\ ctx[1].res = "ok"

----------------------------------------------------------------------------
(***************************************************************************)
(* Derived cursors: properties.                                            *)
(***************************************************************************)

RECURSIVE Ascending(_)
\* The keys of S, smallest first, in the order of the reference.
Ascending(S) ==
    IF S = {} THEN <<>>
    ELSE <<RefLeast(S)>> \o Ascending(S \ {RefLeast(S)})

Reversed(q) == [i \in 1..Len(q) |-> q[Len(q) + 1 - i]]

\* The (key, value) pair the caller sees for the stored key x.
PairOf(x) ==
    [status |-> "ok", k |-> KeyOf(x), v |-> DecodeValue(ValueOf(x, raw), raw).val]

\* C21: an items() cursor without from_key that has run to its end has
\* yielded the pairs of all stored entries, each once, by ascending key
\* when forward and in the reverse of that when backward.
C21_ItemsInKeyOrder ==
    (/\ der.kind = "items" /\ der.built = "ok" /\ der.from = PyNone
     /\ ~der.failed /\ dcall.res = "Stop")
    => /\ [i \in 1..Len(yielded) |-> yielded[i].k] =
              (IF der.backwards THEN Reversed(Ascending(Reference))
               ELSE Ascending(Reference))
       /\ \A i \in 1..Len(yielded) : \E x \in store : yielded[i] = PairOf(x)

\* C29: every __next__ of a derived cursor on a valid position returns the
\* projection of the entry there and moves the cursor by exactly one native
\* step, prev for a backward cursor and next for a forward one, the
\* direction being the one given at construction; on an invalid position
\* it reports the end and calls neither next nor prev, so the cursor stays
\* invalid for every later call.
C29_NextProjectsThenSteps ==
    [][der.built = "ok" =>
        /\ der'.backwards = der.backwards /\ der'.kind = der.kind
        /\ IF ~iter.valid
           THEN /\ iter' = iter /\ yielded' = yielded
                /\ dcall'.res = "Stop" /\ dcall'.steps = <<>>
           ELSE IF Project(der.kind, iter.key).status # "ok"
           THEN /\ iter' = iter /\ yielded' = yielded
                /\ dcall'.res = "DecodeError" /\ dcall'.steps = <<>>
           ELSE /\ dcall'.res = "Some" /\ dcall'.val = Project(der.kind, iter.key)
                /\ yielded' = Append(yielded, dcall'.val)
                /\ dcall'.steps = <<IF der.backwards THEN "prev" ELSE "next">>
                /\ iter' \in {Errored(iter),
                              IF der.backwards THEN RocksdbIterPrev(iter)
                              ELSE RocksdbIterNext(iter)}
      ]_vars

C29_Witness ==
    /\ der.kind = "entities" /\ der.backwards /\ ~der.failed
    /\ Cardinality(store) > 1 /\ Len(yielded) = Cardinality(store)
    /\ yielded[1].k = PyBytes(Greatest(store))
    /\ dcall.res = "Stop" /\ ~iter.valid

\* C30: a derived cursor built with from_key stands on from_key or, when
\* from_key is not stored, on the next greater key (forward) or the nearest
\* smaller key (backward); built without from_key it stands on the first
\* (forward) or last (backward) entry; and it is not built at all exactly
\* when from_key does not encode.
C30_StartsAtFromKey ==
    (der.built # "no" /\ dcall = CallNone /\ ~der.failed) =>
        /\ der.built = "error" <=>
               (der.from # PyNone /\ EncodeKey(der.from, raw).status # "ok")
        /\ (der.built = "ok" /\ der.from # PyNone) =>
               IF der.backwards
               THEN LandsOn(iter, {k \in Reference : ~KeyLess(der.from, k)}, FALSE)
               ELSE LandsOn(iter, {k \in Reference : ~KeyLess(k, der.from)}, TRUE)
        /\ (der.built = "ok" /\ der.from = PyNone) =>
               iter = (IF der.backwards THEN RocksdbIterSeekToLast(Unpositioned)
                       ELSE RocksdbIterSeekToFirst(Unpositioned))

----------------------------------------------------------------------------
(***************************************************************************)
(* Concurrent close: properties.                                           *)
(***************************************************************************)

\* Every holder has been closed or dropped and no close() is under way.
AllClosed ==
    \A t \in Closers : ~hold[t] /\ cpc[t].pc \in {"idle", "gone"}

\* C27: however the close() and drop calls of the threads that own the
\* last holders interleave, at most one of them gets the DB out of the Arc,
\* cancels the background work and releases the DB, the DB is not released
\* while a holder still has its reference, and once all holders are closed
\* exactly one thread has done so.
C27_ExactlyOneTeardown ==
    /\ Cardinality(tore) <= 1 /\ cancels <= 1 /\ releases <= 1
    /\ cancels = 0 => releases = 0
    /\ (\E t \in Closers : hold[t]) => (dbState = "open" /\ cancels = 0)
    /\ AllClosed => (Cardinality(tore) = 1 /\ cancels = 1 /\ releases = 1
                     /\ dbState = "released")

C27_Witness ==
    /\ cpc[3].pc = "gone" /\ tore = {}
    /\ cpc[1] = [op |-> "close", pc |-> "taken"]
    /\ cpc[2] = [op |-> "drop", pc |-> "taken"]
    /\ arc = 2

----------------------------------------------------------------------------
(***************************************************************************)
(* Reads of the store: properties.                                         *)
(***************************************************************************)

Encodes(key) == EncodeKey(key, raw).status = "ok"

\* What the column family held under the key when the call was made.
CellOf(key) == Lookup(req.before, EncodeKey(key, raw).bytes)

Decodes(key) == DecodeValue(CellOf(key).val, raw).status = "ok"

\* The positions of the key list.
Slots == 1..Len(req.keys)

\* C23: a multi-get whose keys all encode, with no engine error and no
\* stored value that fails to decode, returns a list with one element per
\* key, in the order of the keys: the decoded value of a stored key, None
\* for a key that is not stored, the same for every occurrence of a key;
\* and the store is what it was.
C23_MultiGetInOrder ==
    req.op = "multi" =>
        /\ kv = req.before
        /\ ((\A i \in Slots : Encodes(req.keys[i]) /\ (CellOf(req.keys[i]).has => Decodes(req.keys[i])))
            /\ ~req.engine) => req.status = "ok"
        /\ req.status = "ok" =>
              /\ Len(req.list) = Len(req.keys)
              /\ \A i \in Slots :
                    req.list[i] = (IF CellOf(req.keys[i]).has
                                   THEN DecodeValue(CellOf(req.keys[i]).val, raw).val
                                   ELSE PyNone)

C23_Witness ==
    /\ ~raw /\ req.op = "multi" /\ req.status = "ok"
    /\ req.keys = <<PyInt(1), PyInt(9), PyInt(1)>>
    /\ req.list = <<PyBytes(<<7>>), PyNone, PyBytes(<<7>>)>>

\* C26: for a key that encodes and is not stored, the engine not failing,
\* __getitem__ with a single key raises 'key not found' (and raises it for
\* no other reason), a multi-get has None in the key's slot, and
\* __contains__ answers False.
C26_AbsentKey ==
    /\ (req.op = "get" /\ req.status = "key not found") =>
           (Encodes(req.keys[1]) /\ ~CellOf(req.keys[1]).has)
    /\ \A i \in Slots :
          (Encodes(req.keys[i]) /\ ~CellOf(req.keys[i]).has /\ ~req.engine) =>
              /\ req.op = "get" => (req.status = "key not found" /\ req.list = <<>>)
              /\ req.op = "contains" => req.status = "False"
              /\ (req.op = "multi" /\ req.status = "ok") => req.list[i] = PyNone

C26_Witness ==
    /\ req.op = "get" /\ req.keys = <<PyInt(9)>>
    /\ req.status = "key not found" /\ req.reads = 1
    /\ \E k \in DOMAIN kv : kv[k].has

\* C28: a multi-get with a key that does not encode returns the encode
\* error, no list, and has issued no read; otherwise an engine error or a
\* stored value that does not decode, in any slot, makes the whole call
\* return that error and no list.
C28_MultiGetFailsWhole ==
    req.op = "multi" =>
        /\ (\E i \in Slots : ~Encodes(req.keys[i])) =>
               (req.status = "EncodeError" /\ req.list = <<>> /\ req.reads = 0)
        /\ ((\A i \in Slots : Encodes(req.keys[i]))
            /\ (req.engine \/ \E i \in Slots : CellOf(req.keys[i]).has /\ ~Decodes(req.keys[i]))) =>
               (req.status \in {"EngineError", "DecodeError"} /\ req.list = <<>>)
        /\ req.status # "ok" => req.list = <<>>

C28_Witness ==
    /\ ~raw /\ req.op = "multi" /\ Len(req.keys) = MaxBatch
    /\ CellOf(req.keys[1]).has /\ Decodes(req.keys[1])
    /\ req.keys[MaxBatch] = PyOther(<<>>)
    /\ req.status = "EncodeError" /\ req.reads = 0

----------------------------------------------------------------------------
(***************************************************************************)
(* Write batches and snapshots.                                            *)
(***************************************************************************)

\* The positions of the operations of ops that are about key k.
OpsOn(ops, k) == {i \in 1..Len(ops) : ops[i].k = k}

\* What a key holds once ops took effect in the order they were added: what
\* the last operation about it says, or what it held before.
EffectOn(pre, ops, k) ==
    IF OpsOn(ops, k) = {} THEN pre[k]
    ELSE LET i == CHOOSE j \in OpsOn(ops, k) : \A l \in OpsOn(ops, k) : l <= j
         IN IF ops[i].op = "put" THEN Present(ops[i].v) ELSE Absent

Effect(pre, ops) == [k \in DOMAIN pre |-> EffectOn(pre, ops, k)]

\* The batch put(k1, v1), delete(k2), put(k1, v2) over two keys and two values.
Scenario(ops) ==
    /\ Len(ops) = 3
    /\ ops[1].op = "put" /\ ops[2].op = "delete" /\ ops[3].op = "put"
    /\ ops[1].k = ops[3].k /\ ops[2].k # ops[1].k
    /\ ops[1].v # ops[3].v

\* C24: once a write of a batch succeeded, every key holds what the batch's
\* operations, taken in the order they were added, leave it with (k1 -> v2
\* and k2 absent for put(k1,v1), delete(k2), put(k1,v2)); once a write
\* failed or was refused, the store is what it was before the write; and what
\* a concurrent reader has seen since the last write is the store of before
\* that write or the store with the whole batch applied, never a part of it.
C24_BatchAppliedWholeInOrder ==
    /\ wr.status = "ok" => kv = Effect(wr.pre, wr.ops)
    /\ (wr.status = "ok" /\ Scenario(wr.ops)) =>
           /\ kv[wr.ops[1].k] = Present(wr.ops[3].v)
           /\ kv[wr.ops[2].k] = Absent
    /\ wr.status \in {"EngineError", "ModeError", "Consumed", Closed} => kv = wr.pre
    /\ (seen.at > 0 /\ seen.at = wr.n) =>
           seen.cells \in {wr.pre, Effect(wr.pre, wr.ops)}

\* The three operations were written over a store that held k2 and another
\* value of k1, and a reader has read since.
C24_Witness ==
    /\ wr.status = "ok" /\ Scenario(wr.ops)
    /\ wr.pre[wr.ops[2].k] # Absent
    /\ wr.pre[wr.ops[1].k] = Present(wr.ops[1].v)
    /\ seen.at = wr.n /\ seen.cells = kv
    /\ kv # wr.pre

\* C25: while the snapshot exists, a read through it answers with what the
\* key held when the snapshot was taken (the value, or "key not found"),
\* whatever was written since; and the DB it refers to stays open, also when
\* the Rdict it was taken from is closed or dropped.
C25_SnapshotReadsItsMoment ==
    /\ snap.state = "live" =>
           /\ dbState = "open"
           /\ \E h \in Handles : kind[h] = "Snapshot" /\ db[h]
    /\ req.op = "snapshot_get" =>
           LET then == Lookup(snap.view, EncodeKey(req.keys[1], raw).bytes)
           IN IF then.has
              THEN /\ req.status = "ok"
                   /\ EncodeValue(req.list[1], raw).bytes = then.val
              ELSE req.status = "key not found"

\* The snapshot answers with a value that was deleted since, after a second
\* write and after the Rdict was closed.
C25_Witness ==
    /\ req.op = "snapshot_get" /\ req.status = "ok"
    /\ snap.state = "live"
    /\ Len(versions) = MaxWrites + 1
    /\ ~Lookup(kv, EncodeKey(req.keys[1], raw).bytes).has
    /\ \E h \in Handles : kind[h] = "Rdict" /\ ~db[h]


----------------------------------------------------------------------------
(***************************************************************************)
(* Failures that leave things as they were, or do not.                     *)
(***************************************************************************)

\* C34: a seek or seek_for_prev whose key does not encode returns the error
\* and leaves the cursor where it was: same position, same validity, same
\* recorded error.
C34_SeekEncodeErrorKeepsPosition ==
    \A t \in Threads :
        (/\ ctx[t].pc = "done"
         /\ ctx[t].op \in {"seek", "seek_for_prev"}
         /\ EncodeKey(ctx[t].arg, raw).status # "ok") =>
            /\ ctx[t].res = "EncodeError"
            /\ ctx[t].after = ctx[t].before
            /\ iter = ctx[t].before

\* A cursor on a key was asked to seek_for_prev to an object that is no key.
C34_Witness ==
    \E t \in Threads :
        /\ ctx[t].pc = "done" /\ ctx[t].op = "seek_for_prev"
        /\ ctx[t].res = "EncodeError"
        /\ ctx[t].before.valid /\ iter.valid


\* C35: a __next__ of a derived cursor that fails to decode the entry it
\* stands on returns the error without moving the cursor and without
\* yielding, and once a __next__ has failed so every later one fails again
\* on the same entry: the bad entry is not skipped and the end is not
\* reported.
C35_DecodeErrorRepeats ==
    [][/\ dcall'.res = "DecodeError" =>
            /\ iter.valid /\ iter' = iter /\ yielded' = yielded
            /\ dcall'.before = iter /\ dcall'.after = iter
            /\ Project(der'.kind, iter'.key).status # "ok"
       /\ dcall.res = "DecodeError" =>
            /\ dcall'.res = "DecodeError"
            /\ dcall'.before = dcall.before
      ]_vars

\* A forward keys() cursor has yielded a key, stands on the key that does
\* not decode, and a stored key beyond it was never reached.
C35_Witness ==
    /\ dcall.res = "DecodeError" /\ der.kind = "keys" /\ ~der.backwards
    /\ Len(yielded) > 0 /\ iter.valid /\ iter.key = BadKey
    /\ \E x \in store : LexLess(BadKey, x)


----------------------------------------------------------------------------
(***************************************************************************)
(* Teardown of an Rdict and of a holder, once more.                        *)
(***************************************************************************)

\* The teardown of Rdict h is under way: the column-family handle goes
\* first, the DB reference is still held until the second step.
InOrder(h) ==
    \/ run.todo = <<"cf", "db">> /\ (run.wasOpen => db[h])
    \/ run.todo = <<"db">> /\ ~cf[h] /\ (run.wasOpen => db[h])

\* C36: Rdict.close on an open handle flushes, then releases the
\* column-family handle and then the DB reference whatever the flush
\* returned; the caller gets the flush's result (ok or its error); and the
\* handle is closed afterwards: every later operation on it reports "DB
\* already closed" and touches nothing.
C36_CloseReleasesDespiteFlushError ==
    /\ (run.h # 0 /\ run.op = "close" /\ kind[run.h] = "Rdict") =>
           /\ run.wasOpen /\ run.touched
           /\ run.res \in {"ok", "EngineError"}
           /\ InOrder(run.h)
    /\ (run.h = 0 /\ last.op = "close" /\ last.h # 0 /\ kind[last.h] = "Rdict"
           /\ last.wasOpen) =>
           /\ last.res \in {"ok", "EngineError"}
           /\ ~db[last.h] /\ ~cf[last.h]
    /\ (last.h # 0 /\ kind[last.h] = "Rdict" /\ st[last.h] = "live" /\ ~db[last.h]
           /\ last.op \in UserOps) =>
           /\ last.res = Closed
           /\ ~last.touched

\* C37: dropping an Rdict flushes exactly when the handle still holds the
\* DB, so a handle flushes at teardown once (in close, or in the drop of a
\* handle never closed) and never again: the drop of a handle that was
\* never closed flushes and then gives up the column-family handle before
\* the DB reference; the drop of a closed handle flushes nothing, touches
\* nothing and releases nothing; and a closed handle never holds the DB
\* again.
C37_FlushOncePerHandle ==
    [][/\ (run'.h # 0 /\ run'.op = "drop" /\ kind[run'.h] = "Rdict") =>
            /\ run'.touched = run'.wasOpen
            /\ (run.h = 0 => run'.wasOpen = db[run'.h])
            /\ (run'.wasOpen => run'.todo = <<"cf", "db">> \/ (run'.todo = <<"db">> /\ ~cf'[run'.h]))
       /\ (run.h # 0 /\ run.op = "drop" /\ kind[run.h] = "Rdict" /\ ~run.wasOpen) =>
            UNCHANGED <<db, cf, it, dbState, cancels, releases>>
       /\ (run.h # 0 /\ run'.h = 0 /\ run.op = "drop" /\ kind[run.h] = "Rdict") =>
            /\ last'.touched = run.wasOpen
            /\ ~db'[run.h] /\ ~cf'[run.h]
       /\ \A h \in Handles :
            (kind[h] = "Rdict" /\ st[h] # "free" /\ ~db[h]) => ~db'[h]
      ]_vars

\* An Rdict was closed and then dropped: the drop did not flush; another
\* Rdict was dropped open and flushed.
C37_Witness ==
    /\ run.h = 0 /\ closedOnce
    /\ last.op = "drop" /\ kind[last.h] = "Rdict" /\ ~last.wasOpen /\ ~last.touched
    /\ \E g \in Handles \ {last.h} : kind[g] = "Rdict" /\ st[g] = "dropped"

\* C38: a holder that is closed stays closed and its get() returns None from
\* then on; a new holder comes from a clone and is closed when the holder it
\* was cloned from is closed, open when that one is open, the original
\* staying as it was; and a holder loses its reference only in its own close
\* or drop, never in that of another holder.
C38_HolderCloseMonotonic ==
    [][/\ \A h \in Handles :
            (kind[h] = "Holder" /\ st[h] # "free" /\ ~db[h]) =>
                (~db'[h] /\ kind'[h] = "Holder")
       /\ (run.h = 0 /\ run'.h = 0 /\ last'.op = "Holder.get") =>
            (last'.res = "None" <=> ~db'[last'.h])
       /\ \A h \in Handles :
            (st[h] = "free" /\ st'[h] = "live" /\ kind'[h] = "Holder") =>
                /\ last'.op = "Holder.clone"
                /\ db'[h] = db[last'.h]
                /\ db'[last'.h] = db[last'.h]
       /\ \A h \in Handles :
            (kind[h] = "Holder" /\ db[h] /\ ~db'[h]) => run.h = h
      ]_vars

\* Three holders: the first was cloned, closed, and cloned again; its first
\* clone is open and its second clone is closed.
C38_Witness ==
    /\ run.h = 0 /\ last.op = "Holder.clone" /\ ~last.wasOpen
    /\ \A h \in {1, 2, 3} : kind[h] = "Holder" /\ st[h] = "live"
    /\ ~db[1] /\ db[2] /\ ~db[3]
    /\ dbState = "open"


----------------------------------------------------------------------------
(***************************************************************************)
(* delete_range.                                                           *)
(***************************************************************************)

\* The column family after the keys of S were removed from m.
Without(m, S) == [k \in DOMAIN m |-> IF k \in S THEN Absent ELSE m[k]]

\* The keys between the encodings of begin and end, begin included and end
\* excluded.
Between(m, begin, end) ==
    LET lo == EncodeKey(begin, raw).bytes
        hi == EncodeKey(end, raw).bytes
    IN {k \in DOMAIN m : (k = lo \/ LexLess(lo, k)) /\ LexLess(k, hi)}

\* C32: a delete_range(begin, end) that returned normally has removed from
\* the column family of its handle exactly the keys k with encode(begin) <=
\* k < encode(end), on the handle of the default column family as on that
\* of a named one, and has left every other key of it and the other column
\* family as they were.
C32_DeleteRangeExact ==
    (dr.pc = "done" /\ dr.status = "ok") =>
        IF dr.named
        THEN /\ fam = Without(dr.preFam, Between(dr.preFam, dr.begin, dr.end))
             /\ kv = dr.pre
        ELSE /\ kv = Without(dr.pre, Between(dr.pre, dr.begin, dr.end))
             /\ fam = dr.preFam

\* The range [<<1>>, <<2>>) was deleted from the default column family: the
\* two keys in it are gone, the key that is the end of the range is still
\* there, and the other column family holds all three.
C32_Witness ==
    /\ dr.pc = "done" /\ dr.status = "ok" /\ ~dr.named
    /\ dr.begin = PyBytes(<<1>>) /\ dr.end = PyBytes(<<2>>)
    /\ \A k \in DOMAIN dr.pre : dr.pre[k].has
    /\ Cardinality({k \in DOMAIN kv : kv[k].has}) = 1
    /\ kv[EncodeKey(PyBytes(<<2>>), raw).bytes].has
    /\ \A k \in DOMAIN fam : fam[k].has

\* The elements of a sequence.
Elements(s) == {s[i] : i \in 1..Len(s)}

\* C33: on the handle of the default column family delete_range deletes the
\* keys of the range one at a time, in ascending order: at every moment of
\* the call, and after it returned, the keys deleted so far are absent and
\* every other key is as it was before the call; a call that returned an
\* error has left the keys it had not reached in the store, and what it had
\* deleted stays deleted; only a call that returned normally has deleted
\* them all.
C33_DeleteRangeOneByOne ==
    (dr.pc \in {"scan", "done"} /\ ~dr.named
        /\ dr.status \in {"running", "ok", "EngineError"}) =>
        /\ dr.done \o dr.todo = Ordered(Between(dr.pre, dr.begin, dr.end)
                                          \cap {k \in DOMAIN dr.pre : dr.pre[k].has})
        /\ kv = Without(dr.pre, Elements(dr.done))
        /\ \A k \in Elements(dr.todo) : kv[k].has
        /\ dr.status = "ok" => dr.todo = <<>>
        /\ fam = dr.preFam

\* The call failed after its first delete, with two keys still to go, and
\* another reader has read the store since: it saw neither the store of
\* before the call nor the store without the range.
C33_Witness ==
    /\ dr.pc = "done" /\ dr.status = "EngineError" /\ ~dr.named
    /\ Len(dr.done) = 1 /\ Len(dr.todo) = 2
    /\ seen.cells = kv
    /\ kv # dr.pre
    /\ kv # Without(dr.pre, Between(dr.pre, dr.begin, dr.end))


\* The Rdict handles that exist.
LiveRdicts == {h \in Handles : st[h] = "live" /\ kind[h] = "Rdict"}

\* C31: all handles of one store agree on raw_mode. The options and the
\* read options of every Rdict have the raw_mode the store was opened with;
\* an open, a create_column_family or a set_read_options refused for its
\* raw_mode changes no handle, no read options, neither the registry, the
\* saved config nor the column families; and a write() refused for the
\* batch's raw_mode leaves the batch unconsumed, with its operations, and
\* the store as it was.
C31_RawModeAgreement ==
    [][/\ \A h \in Handles :
             (st'[h] = "live" /\ kind'[h] = "Rdict")
                 => (omode'[h] = raw' /\ rmode'[h] = raw')
       /\ (cc' # cc /\ cc'.res = "ArgError"
              /\ cc'.op \in {"new", "create_column_family", "set_read_options"})
            => /\ UNCHANGED <<kind, st, db, cf, it, dbState>>
               /\ UNCHANGED <<omode, rmode, registry, saved, fams>>
               /\ UNCHANGED <<kv, batch>>
       /\ (wr' # wr /\ wr'.status = "ModeError")
            => /\ UNCHANGED <<kv, batch>>
               /\ ~batch'.consumed
               /\ UNCHANGED <<omode, rmode, registry, saved, fams>>]_vars

\* Two handles of one store exist, a create_column_family has just been
\* refused for its raw_mode and, before it, a write() for the raw_mode of a
\* batch that holds an operation.
C31_Witness ==
    /\ Cardinality(LiveRdicts) >= 2
    /\ cc.op = "create_column_family" /\ cc.res = "ArgError"
    /\ wr.status = "ModeError" /\ wr.ops # <<>>

\* C39: create_column_family puts the prefix extractor in the registry
\* and saves the config before it creates the family in the engine. A call
\* that fails on a closed handle or in the engine leaves the name in the
\* registry and creates no family; after an engine error the saved config
\* holds the registry as well, on a closed handle the config is not saved.
\* Only a call refused for its raw_mode leaves the registry as it was.
C39_RegistryBeforeCreate ==
    [][(cc' # cc /\ cc'.op = "create_column_family")
         => /\ cc'.res = "ArgError" => UNCHANGED <<registry, saved, fams>>
            /\ (cc'.res # "ArgError" /\ cc'.prefix) => cc'.name \in registry'
            /\ cc'.res \in {Closed, "IoError", "EngineError"} => UNCHANGED fams
            /\ cc'.res \in {"ok", "EngineError"} => saved' = registry'
            /\ cc'.res \in {Closed, "IoError"} => UNCHANGED saved]_vars

\* A call on a closed handle, or one the engine refused, has left in the
\* registry a name that no column family has.
C39_Witness ==
    /\ cc.op = "create_column_family"
    /\ cc.res \in {Closed, "EngineError"}
    /\ cc.prefix
    /\ cc.name \in registry /\ cc.name \notin fams

====
